---------------------------- MODULE Spec2Model ----------------------------
(***************************************************************************)
(* The football minigame of ballsdex/packages/footballgame: the command    *)
(* handlers of cog.py (add, remove, bet, cancel), the buttons of           *)
(* menu.py's GameView (Lock team, Reset, Cancel game), GameMenu's refresh   *)
(* task, cancel routine, simulation and settlement.                        *)
(*                                                                         *)
(* Every handler is a coroutine.  An action of this module is the code a    *)
(* coroutine runs between two awaits: it resumes after an await, runs the   *)
(* synchronous code, and issues the next await.  The effect of an awaited   *)
(* database operation (is_locked, lock_for_trade, unlock, save) is applied  *)
(* when the await is issued; the coroutine uses its result when it resumes. *)
(* Coroutines interleave only at awaits, as under asyncio.                  *)
(***************************************************************************)
EXTENDS Integers, Sequences, FiniteSets, TLC

\* ------------------------------------------------------------------ bounds
\* Collectibles each user owns: the last one is not tradeable.
BallsPerUser == 6
\* Handlers that can be in flight at once.
MaxInflight == 2

\* --------------------------------------------------------------- constants
Matches == {1, 2, 3}       \* GameMenu objects; each pairs user 1 with user 2
Players == {1, 2}          \* the two users (and their Player records); player1[m] started match m
Balls == 1..(2 * BallsPerUser)
Slots == 1..MaxInflight

\* GameUser.team keys in dict order
PosOrder == <<"GK", "DF", "MF", "FW">>
PosSet == {"GK", "DF", "MF", "FW"}
position_caps == [GK |-> 1, DF |-> 4, MF |-> 3, FW |-> 3]

\* GameMenu.channel: matches 1 and 3 belong to channel 1, match 2 to channel 2
channel(m) == IF m = 2 THEN 2 ELSE 1

Base(p) == (p - 1) * BallsPerUser
OwnerInit(b) == IF b <= BallsPerUser THEN 1 ELSE 2
OwnedBalls(p) == {b \in Balls : OwnerInit(b) = p}
\* BallInstance.is_tradeable, BallInstance.favorite: attributes of the collectible
is_tradeable(b) == b \notin {BallsPerUser, 2 * BallsPerUser}
favorite(b) == \E p \in {1, 2} : b \in {Base(p) + 2, Base(p) + 5}
\* BallInstance.attack + BallInstance.health
attack(b) == 1 + (b % 3)
health(b) == 1 + (b % 2)

\* str.upper on the position strings a user may type
Upper(s) == CASE s = "gk" -> "GK" [] s = "fw" -> "FW" [] OTHER -> s
PositionInputs == {"GK", "DF", "MF", "FW", "gk", "xx"}

EmptyTeam == [pos \in PosSet |-> <<>>]
\* The team every participant starts a prepared match with: one ball a position.
MinTeam(p) == [GK |-> <<Base(p) + 1>>, DF |-> <<Base(p) + 2>>,
               MF |-> <<Base(p) + 3>>, FW |-> <<Base(p) + 4>>]

VARIABLES
    games,       \* FootballGame.games: the matches in the guild's registry entry
    team,        \* GameUser.team    [match][player][position] -> sequence of balls
    bets,        \* GameUser.bets    [match][player] -> sequence of balls
    locked,      \* GameUser.locked
    cancelled,   \* GameUser.cancelled
    won,         \* GameUser.won
    task,        \* GameMenu.task: "none" (None), "running", "done" (cancelled or returned)
    finished,    \* GameMenu.current_view.is_finished()
    embed,       \* GameMenu.embed.description, as a tag
    owner,       \* BallInstance.player (database)
    balllock,    \* BallInstance.locked (database): the trade-lock
    proc,        \* the handlers in flight: one record a slot
    game,        \* execute_game's local variables, one record a slot
    player1,     \* GameMenu.player1: the user who started the match (the other is player2)
    match_events, \* GameMenu.match_events: the number of entries in the list
    cf_wallet,   \* bot.cf_wallet   [user] -> coins
    cf_packs,    \* bot.cf_packs    [user][pack type] -> packs
    instances,   \* BallInstance rows (database) the economy commands sell: their pks
    created,     \* BallInstance rows created by open, a user
    selected,    \* BulkSellView.selected_balls of user 1's bulk-sell menu
    stopped,     \* BulkSellView.is_finished()
    cfproc       \* the economy handlers in flight: one record a slot

\* the state of the football matches, the state of the economy
fgvars == <<games, team, bets, locked, cancelled, won, task, finished, embed,
            owner, balllock, proc, game, player1, match_events>>
cfvars == <<cf_wallet, cf_packs, instances, created, selected, stopped, cfproc>>
vars == <<fgvars, cfvars>>

\* ------------------------------------------------------- economy, constants
\* cfcoins/cog.py 27-60: PACK_TYPES, rarities in hundredths
PackNames == {"normal", "epic", "mythic", "legendary"}
PACK_TYPES ==
    [normal    |-> [price |-> 250,  min_rarity |-> 1500, max_rarity |-> 3000],
     epic      |-> [price |-> 500,  min_rarity |-> 100,  max_rarity |-> 500],
     mythic    |-> [price |-> 1500, min_rarity |-> 10,   max_rarity |-> 100],
     legendary |-> [price |-> 3000, min_rarity |-> 1,    max_rarity |-> 10]]

\* Discord users: 1 and 2 are members (1 is in ADMIN_IDS), 3 is a bot account
CfUsers == {1, 2, 3}
Members == {1, 2}
IsBot(u) == u = 3
ADMIN_IDS == {1}

CfIdle == [kind |-> "idle", pc |-> "", u |-> 0, pack |-> "", ball |-> 0,
           found |-> FALSE, ok |-> FALSE, idx |-> 0, total |-> 0,
           list |-> <<>>, own |-> FALSE]

\* cfcoins/cog.py 260-266: the cog after construction, no command issued yet
CfQuiet ==
    /\ cf_wallet = [u \in CfUsers |-> 0]
    /\ cf_packs = [u \in CfUsers |-> [t \in PackNames |-> 0]]
    /\ instances = {}
    /\ created = [u \in CfUsers |-> 0]
    /\ selected = <<>>
    /\ stopped = FALSE
    /\ cfproc = [h \in Slots |-> CfIdle]

\* ------------------------------------------------------------- sequences
InSeq(x, s) == \E i \in 1..Len(s) : s[i] = x

RECURSIVE FirstIndex(_, _, _)
FirstIndex(x, s, i) ==
    IF i > Len(s) THEN 0 ELSE IF s[i] = x THEN i ELSE FirstIndex(x, s, i + 1)

\* list.remove(x): drops the first occurrence
ListRemove(s, x) ==
    LET i == FirstIndex(x, s, 1)
    IN IF i = 0 THEN s ELSE SubSeq(s, 1, i - 1) \o SubSeq(s, i + 1, Len(s))

\* ----------------------------------------------------------- GameUser
InTeam(tm, b) == \E pos \in PosSet : InSeq(b, tm[pos])

get_all_players(tm) == tm["GK"] \o tm["DF"] \o tm["MF"] \o tm["FW"]

has_minimum_team(tm) == \A pos \in PosSet : Len(tm[pos]) >= 1

\* --------------------------------------------------------- handler slots
\* m: the match the handler works on (0: an add that has not called get_game yet)
\* ch: interaction.channel of an add; button: the handler is the callback of a
\* button of the match's GameView
Idle == [kind |-> "idle", m |-> 0, p |-> 0, ball |-> 0, pos |-> "", pc |-> "",
         flag |-> FALSE, in_team |-> FALSE, k |-> 0, j |-> 0, reason |-> "",
         button |-> FALSE, ch |-> 0]

GIdle == [i |-> 0, score |-> <<0, 0>>, pen |-> <<0, 0>>, round |-> 0,
          stronger |-> 0, chance |-> 0, winner |-> 0,
          betted |-> <<>>, all_team |-> <<>>, idx |-> 0]

\* A new handler takes the lowest free slot.
FreeSlot(h) == proc[h].kind = "idle" /\ \A g \in Slots : g < h => proc[g].kind # "idle"

\* cog.py 71-76: a match get_game skips and removes from the channel's list
Stale(m) == finished[m] \/ cancelled[m][1] \/ cancelled[m][2]

\* Both users are participants of every match (_get_player finds them), so a
\* channel's list holds at most one match that is not stale, and it is the last.
\* FootballGame.get_game called in the channel of m returns m
GetGame(m, p) == m \in games /\ ~Stale(m)

\* cog.py 69-90: the registry after get_game ran in channel c: the stale matches
\* of the channel's list are removed
Purged(c) == games \ {m \in games : channel(m) = c /\ Stale(m)}

\* cog.py 69-90: the match get_game returns in channel c, 0 for (None, None):
\* the first match of the channel's list that is not stale.  /game start
\* appends a match only when get_game finds none (cog.py 126-137), so the
\* list never holds two of them.
FoundGame(c) ==
    LET found == {m \in games : channel(m) = c /\ ~Stale(m)}
    IN IF found = {} THEN 0 ELSE CHOOSE m \in found : TRUE


\* ------------------------------------------------ BallInstance trade-lock
\* is_locked(), lock_for_trade(), unlock(): a flag of the database row
IsLocked(b) == balllock[b]
LockForTrade(b) == [balllock EXCEPT ![b] = TRUE]
Unlock(b) == [balllock EXCEPT ![b] = FALSE]

Start(kind, m, p, b, pos, pc) ==
    [Idle EXCEPT !.kind = kind, !.m = m, !.p = p, !.ball = b, !.pos = pos, !.pc = pc]

\* menu.py 36-134: a callback of one of the view's buttons
Press(kind, m, p, pc) == [Start(kind, m, p, 0, "", pc) EXCEPT !.button = TRUE]

At(h, kind, pc) == proc[h].kind = kind /\ proc[h].pc = pc

Return(h) == proc' = [proc EXCEPT ![h] = Idle]

\* --------------------------------------------------------------- /game add
\* cog.py 175-186: the returns before the await of response.defer()
AddRejectedAtOnce(b, position) ==
    \/ Upper(position) \notin PosSet
    \/ ~is_tradeable(b)

\* add without the check of player.locked (cog.py 208)
AddRejectedIgnoringLocked(m, p, b) ==
    \/ ~GetGame(m, p)
    \/ InTeam(team[m][p], b)
\* cog.py 204-222: the returns between get_game and the await of is_locked
AddRejected(m, p, b) ==
    \/ ~GetGame(m, p)
    \/ locked[m][p]
    \/ InTeam(team[m][p], b)

\* the capacity check with > for >=
PositionFullOffByOne(tm, pos) == Len(tm[pos]) > position_caps[pos]
\* cog.py 232-236: current_count >= max_capacity
PositionFull(tm, pos) == Len(tm[pos]) >= position_caps[pos]

\* cog.py 153-187: the command is issued in channel c with a ball of the
\* user's own (BallInstanceTransform); up to the await of response.defer().
\* No match is looked up yet.
AddBegin(h, c, p, b, position) ==
    /\ FreeSlot(h)
    /\ owner[b] = p
    /\ proc' = IF AddRejectedAtOnce(b, position) THEN proc
               ELSE [proc EXCEPT ![h] =
                        [Start("add", 0, p, b, Upper(position), "defer") EXCEPT !.ch = c]]
    /\ UNCHANGED <<games, team, bets, locked, cancelled, won, task, finished,
                   embed, owner, balllock, game>>
    /\ UNCHANGED <<player1, match_events, cfvars>>

\* cog.py 204-224: get_game finds the match the channel holds now; the checks
\* of its participant and team as they are now, up to the await of
\* countryball.is_locked()
AddLookup(h) ==
    LET r == proc[h]
        m == FoundGame(r.ch)
    IN /\ games' = Purged(r.ch)
       /\ IF m = 0
          THEN Return(h)
          ELSE IF AddRejected(m, r.p, r.ball)
          THEN Return(h)
          ELSE proc' = [proc EXCEPT ![h].m = m, ![h].pc = "is_locked",
                                    ![h].flag = IsLocked(r.ball)]

\* cog.py 187-202: defer() has returned; a favourite ball opens the
\* confirmation dialog (followup.send, then view.wait)
AddDefer(h) ==
    /\ At(h, "add", "defer")
    /\ IF favorite(proc[h].ball)
       THEN /\ proc' = [proc EXCEPT ![h].pc = "confirm"]
            /\ UNCHANGED games
       ELSE AddLookup(h)
    /\ UNCHANGED <<team, bets, locked, cancelled, won, task, finished, embed,
                   owner, balllock, game>>
    /\ UNCHANGED <<player1, match_events, cfvars>>

\* cog.py 201-224: the dialog's answer
AddConfirm(h, accept) ==
    /\ At(h, "add", "confirm")
    /\ IF ~accept
       THEN Return(h) /\ UNCHANGED games
       ELSE AddLookup(h)
    /\ UNCHANGED <<team, bets, locked, cancelled, won, task, finished, embed,
                   owner, balllock, game>>
    /\ UNCHANGED <<player1, match_events, cfvars>>

\* cog.py 224-244: the lock answer, the capacity check, the await of lock_for_trade()
AddCheck(h) ==
    /\ At(h, "add", "is_locked")
    /\ LET r == proc[h]
       IN IF r.flag \/ PositionFull(team[r.m][r.p], r.pos)
          THEN Return(h) /\ UNCHANGED balllock
          ELSE /\ balllock' = LockForTrade(r.ball)
               /\ proc' = [proc EXCEPT ![h].pc = "lock_for_trade"]
    /\ UNCHANGED <<games, team, bets, locked, cancelled, won, task, finished,
                   embed, owner, game>>
    /\ UNCHANGED <<player1, match_events, cfvars>>

\* cog.py 245-249: player.team[position].append(countryball)
AddAppend(h) ==
    /\ At(h, "add", "lock_for_trade")
    /\ LET r == proc[h]
       IN team' = [team EXCEPT ![r.m][r.p][r.pos] = Append(@, r.ball)]
    /\ Return(h)
    /\ UNCHANGED <<games, bets, locked, cancelled, won, task, finished, embed,
                   owner, balllock, game>>
    /\ UNCHANGED <<player1, match_events, cfvars>>

\* ------------------------------------------------------------ /game remove
\* cog.py 279-294, 304-308: every way remove returns without a change
RemoveRejected(m, p, b) ==
    \/ ~GetGame(m, p)
    \/ locked[m][p]
    \/ ~InTeam(team[m][p], b)

\* cog.py 297-302: the first position (dict order) that holds the ball loses it
RECURSIVE RemoveFromTeam(_, _, _)
RemoveFromTeam(tm, b, k) ==
    IF k > Len(PosOrder) THEN tm
    ELSE IF InSeq(b, tm[PosOrder[k]])
         THEN [tm EXCEPT ![PosOrder[k]] = ListRemove(@, b)]
         ELSE RemoveFromTeam(tm, b, k + 1)

\* cog.py 263-300: up to the await of countryball.unlock()
RemoveBegin(h, m, p, b) ==
    /\ FreeSlot(h)
    /\ owner[b] = p
    /\ games' = Purged(channel(m))
    /\ IF RemoveRejected(m, p, b)
       THEN UNCHANGED <<team, bets, locked, cancelled, won, task, finished,
                        embed, owner, balllock, proc, game>>
       ELSE /\ team' = [team EXCEPT ![m][p] = RemoveFromTeam(@, b, 1)]
            /\ balllock' = Unlock(b)
            /\ proc' = [proc EXCEPT ![h] = Start("remove", m, p, b, "", "unlock")]
            /\ UNCHANGED <<bets, locked, cancelled, won, task, finished,
                           embed, owner, game>>
    /\ UNCHANGED <<player1, match_events, cfvars>>

\* cog.py 301-315: after the unlock, the ball leaves the bets
RemoveFinish(h) ==
    /\ At(h, "remove", "unlock")
    /\ LET r == proc[h]
       IN bets' = [bets EXCEPT ![r.m][r.p] = ListRemove(@, r.ball)]
    /\ Return(h)
    /\ UNCHANGED <<games, team, locked, cancelled, won, task, finished, embed,
                   owner, balllock, game>>
    /\ UNCHANGED <<player1, match_events, cfvars>>

\* --------------------------------------------------------------- /game bet
\* cog.py 334-362: every early return before the await of is_locked
BetRejected(m, p, b) ==
    \/ ~GetGame(m, p)
    \/ locked[m][p]
    \/ ~is_tradeable(b)
    \/ InSeq(b, bets[m][p])

\* cog.py 318-365: up to the await of countryball.is_locked()
BetBegin(h, m, p, b) ==
    /\ FreeSlot(h)
    /\ owner[b] = p
    /\ games' = Purged(channel(m))
    /\ IF BetRejected(m, p, b)
       THEN UNCHANGED <<team, bets, locked, cancelled, won, task, finished,
                        embed, owner, balllock, proc, game>>
       ELSE /\ proc' = [proc EXCEPT ![h] =
                    [Start("bet", m, p, b, "", "is_locked")
                        EXCEPT !.in_team = InTeam(team[m][p], b),
                               !.flag = IsLocked(b)]]
            /\ UNCHANGED <<team, bets, locked, cancelled, won, task,
                           finished, embed, owner, balllock, game>>
    /\ UNCHANGED <<player1, match_events, cfvars>>

\* cog.py 365-378: locked elsewhere: rejected; not in the team: lock_for_trade()
\* is awaited; in the team: the ball is appended at once
BetCheck(h) ==
    /\ At(h, "bet", "is_locked")
    /\ LET r == proc[h]
       IN IF r.flag /\ ~r.in_team
          THEN Return(h) /\ UNCHANGED <<balllock, bets>>
          ELSE IF ~r.in_team /\ ~r.flag
          THEN /\ balllock' = LockForTrade(r.ball)
               /\ proc' = [proc EXCEPT ![h].pc = "lock_for_trade"]
               /\ UNCHANGED bets
          ELSE /\ bets' = [bets EXCEPT ![r.m][r.p] = Append(@, r.ball)]
               /\ Return(h)
               /\ UNCHANGED balllock
    /\ UNCHANGED <<games, team, locked, cancelled, won, task, finished, embed,
                   owner, game>>
    /\ UNCHANGED <<player1, match_events, cfvars>>

\* cog.py 378: player.bets.append(countryball)
BetAppend(h) ==
    /\ At(h, "bet", "lock_for_trade")
    /\ LET r == proc[h]
       IN bets' = [bets EXCEPT ![r.m][r.p] = Append(@, r.ball)]
    /\ Return(h)
    /\ UNCHANGED <<games, team, locked, cancelled, won, task, finished, embed,
                   owner, balllock, game>>
    /\ UNCHANGED <<player1, match_events, cfvars>>

\* ------------------------------------------------------- the Reset button
\* A button of the view is dispatched while the view has not stopped.
ViewActive(m) == task[m] # "none" /\ ~finished[m]

\* menu.py 77-83
ClearRejected(m, p) == locked[m][p]

\* menu.py 72-75: the press, up to the await of response.defer()
ClearBegin(h, m, p) ==
    /\ FreeSlot(h)
    /\ ViewActive(m)
    /\ proc' = [proc EXCEPT ![h] = Press("clear", m, p, "defer")]
    /\ UNCHANGED <<games, team, bets, locked, cancelled, won, task,
                   finished, embed, owner, balllock, game>>
    /\ UNCHANGED <<player1, match_events, cfvars>>

\* menu.py 77-93: defer() has returned: the first check of player.locked, then
\* the confirmation dialog
ClearDefer(h) ==
    /\ At(h, "clear", "defer")
    /\ IF ClearRejected(proc[h].m, proc[h].p)
       THEN Return(h)
       ELSE proc' = [proc EXCEPT ![h].pc = "confirm"]
    /\ UNCHANGED <<games, team, bets, locked, cancelled, won, task,
                   finished, embed, owner, balllock, game>>
    /\ UNCHANGED <<player1, match_events, cfvars>>

\* menu.py 104-107: the two loops, run from position k, index j to the next
\* await of ball.unlock(); a position is cleared when its loop ends.
\* ball = 0: both loops have ended.
RECURSIVE ClearAdvance(_, _, _)
ClearAdvance(tm, k, j) ==
    IF k > Len(PosOrder) THEN [team |-> tm, k |-> k, j |-> j, ball |-> 0]
    ELSE IF j < Len(tm[PosOrder[k]])
         THEN [team |-> tm, k |-> k, j |-> j + 1, ball |-> tm[PosOrder[k]][j + 1]]
         ELSE ClearAdvance([tm EXCEPT ![PosOrder[k]] = <<>>], k + 1, 0)

ClearLoop(h, k, j) ==
    LET r == proc[h]
        a == ClearAdvance(team[r.m][r.p], k, j)
    IN /\ team' = [team EXCEPT ![r.m][r.p] = a.team]
       /\ IF a.ball # 0
          THEN /\ balllock' = Unlock(a.ball)
               /\ proc' = [proc EXCEPT ![h].pc = "unlock", ![h].k = a.k, ![h].j = a.j]
               /\ UNCHANGED bets
          ELSE /\ bets' = [bets EXCEPT ![r.m][r.p] = <<>>]
               /\ Return(h)
               /\ UNCHANGED balllock

\* menu.py 93-106: the dialog's answer, the second check of player.locked
ClearConfirm(h, accept) ==
    /\ At(h, "clear", "confirm")
    /\ IF ~accept \/ locked[proc[h].m][proc[h].p]
       THEN Return(h) /\ UNCHANGED <<team, bets, balllock>>
       ELSE ClearLoop(h, 1, 0)
    /\ UNCHANGED <<games, locked, cancelled, won, task, finished, embed, owner, game>>
    /\ UNCHANGED <<player1, match_events, cfvars>>

\* menu.py 104-111: after an unlock, on to the next ball or to bets.clear()
ClearStep(h) ==
    /\ At(h, "clear", "unlock")
    /\ ClearLoop(h, proc[h].k, proc[h].j)
    /\ UNCHANGED <<games, locked, cancelled, won, task, finished, embed, owner, game>>
    /\ UNCHANGED <<player1, match_events, cfvars>>

\* ------------------------------------------------------ GameMenu.cancel
\* the other user of the match
Other(p) == 3 - p

\* menu.py 227: the position lists of player1 then player2, in dict order
CancelLists == 2 * Len(PosOrder)
CancelList(m, k) ==
    team[m][IF k <= Len(PosOrder) THEN player1[m] ELSE Other(player1[m])]
           [PosOrder[((k - 1) % Len(PosOrder)) + 1]]

\* menu.py 227-229: the two loops, run from list k, index j to the next await of
\* ball.unlock(); the lists are the live ones.  ball = 0: the loops have ended.
RECURSIVE CancelAdvance(_, _, _)
CancelAdvance(m, k, j) ==
    IF k > CancelLists THEN [k |-> k, j |-> j, ball |-> 0]
    ELSE IF j < Len(CancelList(m, k))
         THEN [k |-> k, j |-> j + 1, ball |-> CancelList(m, k)[j + 1]]
         ELSE CancelAdvance(m, k + 1, 0)

\* the loops with an unlock that locks a ball it finds unlocked
CancelLoopRelocking(h, m, reason, k, j) ==
    LET a == CancelAdvance(m, k, j)
    IN IF a.ball # 0
       THEN /\ balllock' = [balllock EXCEPT ![a.ball] = ~@]
            /\ proc' = [proc EXCEPT ![h].pc = "cancel_unlock", ![h].k = a.k,
                                    ![h].j = a.j, ![h].reason = reason]
            /\ UNCHANGED <<finished, embed>>
       ELSE /\ finished' = [finished EXCEPT ![m] = TRUE]
            /\ embed' = [embed EXCEPT ![m] = reason]
            /\ proc' = [proc EXCEPT ![h].pc = "cancel_edit", ![h].reason = reason]
            /\ UNCHANGED balllock

\* menu.py 227-238: on to the next unlock, or view.stop(), the reason in the
\* embed and the await of message.edit()
CancelLoop(h, m, reason, k, j) ==
    LET a == CancelAdvance(m, k, j)
    IN IF a.ball # 0
       THEN /\ balllock' = Unlock(a.ball)
            /\ proc' = [proc EXCEPT ![h].pc = "cancel_unlock", ![h].k = a.k,
                                    ![h].j = a.j, ![h].reason = reason]
            /\ UNCHANGED <<finished, embed>>
       ELSE /\ finished' = [finished EXCEPT ![m] = TRUE]
            /\ embed' = [embed EXCEPT ![m] = reason]
            /\ proc' = [proc EXCEPT ![h].pc = "cancel_edit", ![h].reason = reason]
            /\ UNCHANGED balllock

\* menu.py 222-229: task.cancel(), then the loops
CancelStart(h, m, reason) ==
    /\ task' = IF task[m] = "none" THEN task ELSE [task EXCEPT ![m] = "done"]
    /\ CancelLoop(h, m, reason, 1, 0)

\* menu.py 229-238 resumed after an unlock, and the return to the caller after
\* the edit (both callers only send a message afterwards)
CancelStep(h) ==
    /\ proc[h].kind \in {"cancel", "lock"}
    /\ \/ /\ proc[h].pc = "cancel_unlock"
          /\ CancelLoop(h, proc[h].m, proc[h].reason, proc[h].k, proc[h].j)
          /\ UNCHANGED game
       \/ /\ proc[h].pc = "cancel_edit"
          /\ proc' = [proc EXCEPT ![h] = Idle]
          /\ game' = [game EXCEPT ![h] = GIdle]
          /\ UNCHANGED <<balllock, finished, embed>>
    /\ UNCHANGED <<games, team, bets, locked, cancelled, won, task, owner>>
    /\ UNCHANGED <<player1, match_events, cfvars>>

\* ------------------------------------- Cancel game button, /game cancel
\* menu.py 118-129: the button opens the confirmation dialog
CancelButton(h, m, p) ==
    /\ FreeSlot(h)
    /\ ViewActive(m)
    /\ proc' = [proc EXCEPT ![h] = Press("cancel", m, p, "confirm")]
    /\ UNCHANGED <<games, team, bets, locked, cancelled, won, task, finished,
                   embed, owner, balllock, game>>
    /\ UNCHANGED <<player1, match_events, cfvars>>

\* cog.py 385-406: the command opens it only for a user get_game finds a match for
CancelCommand(h, m, p) ==
    /\ FreeSlot(h)
    /\ games' = Purged(channel(m))
    /\ proc' = IF GetGame(m, p)
               THEN [proc EXCEPT ![h] = Start("cancel", m, p, 0, "", "confirm")]
               ELSE proc
    /\ UNCHANGED <<team, bets, locked, cancelled, won, task,
                   finished, embed, owner, balllock, game>>
    /\ UNCHANGED <<player1, match_events, cfvars>>

\* menu.py 129-133, 240-243: the answer, then GameMenu.user_cancel
CancelConfirm(h, accept) ==
    /\ At(h, "cancel", "confirm")
    /\ LET r == proc[h]
       IN IF ~accept
          THEN /\ Return(h)
               /\ UNCHANGED <<cancelled, task, balllock, finished, embed>>
          ELSE /\ cancelled' = [cancelled EXCEPT ![r.m][r.p] = TRUE]
               /\ CancelStart(h, r.m, "cancelled")
    /\ UNCHANGED <<games, team, bets, locked, won, owner, game>>
    /\ UNCHANGED <<player1, match_events, cfvars>>

\* --------------------------------------------- GameMenu.update_message_loop
\* menu.py 184-207: one turn of the loop.  Past the deadline ("late") or when the
\* edit raises ("fail") the task calls cancel(), which cancels the task it runs
\* in: the first await inside cancel() raises CancelledError.  That await is
\* the unlock of the first ball, which has reached the database or not
\* (landed), or, with no ball in any team, the edit that follows view.stop().
RefreshOutcomes == {"ok", "late", "fail"}

RefreshTick(m, outcome, landed) ==
    /\ task[m] = "running"
    /\ IF outcome = "ok"
       THEN UNCHANGED vars
       ELSE /\ task' = [task EXCEPT ![m] = "done"]
            /\ LET a == CancelAdvance(m, 1, 0)
               IN IF a.ball # 0
                  THEN /\ balllock' = IF landed THEN Unlock(a.ball) ELSE balllock
                       /\ UNCHANGED <<finished, embed>>
                  ELSE /\ finished' = [finished EXCEPT ![m] = TRUE]
                       /\ embed' = [embed EXCEPT ![m] = "timed_out"]
                       /\ UNCHANGED balllock
            /\ UNCHANGED <<games, team, bets, locked, cancelled, won, owner, proc, game>>
    /\ UNCHANGED <<player1, match_events, cfvars>>

\* menu.py 29: GameView(timeout=60 * 30): 1800 s after the message was sent or
\* after the last button press the view times out: is_finished() becomes true,
\* no press is dispatched any more; nothing else of the match changes.  A
\* press still being handled is younger than that; a command (/game cancel
\* with its dialog open included) is no press and does not delay the timeout.
ViewTimeout(m) ==
    /\ ViewActive(m)
    /\ \A h \in Slots : ~(proc[h].m = m /\ proc[h].button)
    /\ finished' = [finished EXCEPT ![m] = TRUE]
    /\ UNCHANGED <<games, team, bets, locked, cancelled, won, task, embed, owner,
                   balllock, proc, game, player1, match_events>>
    /\ UNCHANGED cfvars

\* ------------------------------------------------- Lock team, execute_game
NumRounds == 10
PenaltyRounds == 3
EventTypes == {"goal", "save", "offside", "defense", "foul"}

\* menu.py 43-59: up to the await of response.defer()
LockRejected(m, p) == locked[m][p] \/ ~has_minimum_team(team[m][p])

LockBegin(h, m, p) ==
    /\ FreeSlot(h)
    /\ ViewActive(m)
    /\ IF LockRejected(m, p)
       THEN UNCHANGED vars
       ELSE /\ proc' = [proc EXCEPT ![h] = Press("lock", m, p, "defer")]
            /\ UNCHANGED <<games, team, bets, locked, cancelled, won, task,
                           finished, embed, owner, balllock, game>>
    /\ UNCHANGED <<player1, match_events, cfvars>>

\* the start of the game as soon as one side is locked
BothLockedEither(lk) == lk[1] \/ lk[2]
\* menu.py 249: self.player1.locked and self.player2.locked
BothLocked(lk) == lk[1] /\ lk[2]

\* menu.py 60, 245-250, 268-278: GameMenu.lock sets the flag; with both flags
\* set execute_game starts: task.cancel(), then the await of message.edit()
LockSet(h) ==
    /\ At(h, "lock", "defer")
    /\ LET r == proc[h]
           lk == [locked[r.m] EXCEPT ![r.p] = TRUE]
       IN /\ locked' = [locked EXCEPT ![r.m] = lk]
          /\ IF BothLocked(lk)
             THEN /\ task' = [task EXCEPT ![r.m] = "done"]
                  /\ embed' = [embed EXCEPT ![r.m] = "starting"]
                  /\ proc' = [proc EXCEPT ![h].pc = "start_edit"]
             ELSE /\ Return(h)
                  /\ UNCHANGED <<task, embed>>
    /\ UNCHANGED <<games, team, bets, cancelled, won, finished, owner, balllock, game>>
    /\ UNCHANGED <<player1, match_events, cfvars>>

\* game_user.py 33-44: the mean of attack + health, as a fraction; 0 for no ball
RECURSIVE SumStats(_)
SumStats(s) == IF s = <<>> THEN 0 ELSE attack(Head(s)) + health(Head(s)) + SumStats(Tail(s))

\* the strength as the sum, not the mean
get_team_strength_total(tm) == [num |-> SumStats(get_all_players(tm)), den |-> 1]

get_team_strength(tm) ==
    LET all == get_all_players(tm)
    IN IF all = <<>> THEN [num |-> 0, den |-> 1]
       ELSE [num |-> SumStats(all), den |-> Len(all)]

Greater(x, y) == x.num * y.den > y.num * x.den

\* An exception leaves the handler: its locals are gone.
Raise(h) ==
    /\ proc' = [proc EXCEPT ![h] = Idle]
    /\ game' = [game EXCEPT ![h] = GIdle]

\* menu.py 278-303: the edit has returned (ok) or raised; the strengths, the
\* scores, and the first sleep of the round loop
GameStart(h, ok) ==
    /\ At(h, "lock", "start_edit")
    /\ LET m == proc[h].m
           s1 == get_team_strength(team[m][1])
           s2 == get_team_strength(team[m][2])
       IN /\ match_events' = IF ok THEN [match_events EXCEPT ![m] = 0] ELSE match_events
          /\ IF ~ok
             THEN Raise(h)
             ELSE /\ game' = [game EXCEPT ![h] =
                          [GIdle EXCEPT
                             !.stronger = IF Greater(s1, s2) THEN 1
                                          ELSE IF Greater(s2, s1) THEN 2 ELSE player1[m],
                             !.chance = IF Greater(s1, s2) \/ Greater(s2, s1) THEN 55 ELSE 50]]
                  /\ proc' = [proc EXCEPT ![h].pc = "round"]
    /\ UNCHANGED <<games, team, bets, locked, cancelled, won, task, finished,
                   embed, owner, balllock>>
    /\ UNCHANGED <<player1, cfvars>>

\* every event takes its ball from the round winner's team
EventPoolOfWinner(m, event_type, winner_player, loser_player) ==
    CASE event_type = "goal" -> team[m][winner_player]["FW"]
      [] event_type = "save" -> team[m][winner_player]["GK"]
      [] event_type = "offside" -> team[m][winner_player]["FW"]
      [] event_type = "defense" -> team[m][winner_player]["DF"]
      [] event_type = "foul" -> team[m][winner_player]["MF"]

\* menu.py 310-350: the pool the event needs a ball from
EventPool(m, event_type, winner_player, loser_player) ==
    CASE event_type = "goal" -> team[m][winner_player]["FW"]
      [] event_type = "save" -> team[m][winner_player]["GK"]
      [] event_type = "offside" -> team[m][loser_player]["FW"]
      [] event_type = "defense" -> team[m][winner_player]["DF"]
      [] event_type = "foul" -> team[m][loser_player]["MF"]

AddOne(pair, p) == [pair EXCEPT ![p] = @ + 1]

\* one round in which every event that finds a ball scores
RoundResultAnyEventScores(g, m, favoured, event_type) ==
    LET winner_player == IF favoured THEN g.stronger ELSE Other(g.stronger)
        pool == EventPool(m, event_type, winner_player, Other(winner_player))
    IN [g EXCEPT !.score = IF pool # <<>> THEN AddOne(@, winner_player) ELSE @,
                 !.i = @ + 1]

\* menu.py 301-365: one round.  favoured: random.random() < stronger_chance.
RoundResult(g, m, favoured, event_type) ==
    LET winner_player == IF favoured THEN g.stronger ELSE Other(g.stronger)
        pool == EventPool(m, event_type, winner_player, Other(winner_player))
    IN [g EXCEPT !.score = IF event_type = "goal" /\ pool # <<>>
                           THEN AddOne(@, winner_player) ELSE @,
                 !.i = @ + 1]

\* The entry of the round goes to match_events, the list of the GameMenu
\* that every handler simulating the match appends to and shows.
GameRound(h, favoured, event_type, ok) ==
    /\ At(h, "lock", "round")
    /\ LET m == proc[h].m
           g == RoundResult(game[h], m, favoured, event_type)
           winner_player == IF favoured THEN game[h].stronger ELSE Other(game[h].stronger)
           pool == EventPool(m, event_type, winner_player, Other(winner_player))
       IN /\ embed' = [embed EXCEPT ![m] = "in_progress"]
          /\ match_events' = [match_events EXCEPT ![m] = IF pool # <<>> THEN @ + 1 ELSE @]
          /\ IF ~ok
             THEN Raise(h)
             ELSE /\ game' = [game EXCEPT ![h] = g]
                  /\ proc' = [proc EXCEPT ![h].pc =
                                  IF g.i < NumRounds THEN "round" ELSE "final"]
    /\ UNCHANGED <<games, team, bets, locked, cancelled, won, task, finished,
                   owner, balllock>>
    /\ UNCHANGED <<player1, cfvars>>

\* ------------------------------------------------------------- settlement
\* menu.py 462-466
SelectIn(s, t) == SelectSeq(s, LAMBDA b : InSeq(b, t))
AllTeamBalls(m, w) == get_all_players(team[m][w]) \o get_all_players(team[m][Other(w)])
BettedBalls(m, all) == SelectIn(bets[m][player1[m]], all)
                           \o SelectIn(bets[m][Other(player1[m])], all)

\* menu.py 469-476: the await the two loops reach next, from the loop ("bet",
\* "team") and index given
RECURSIVE NextTeamUnlock(_, _)
NextTeamUnlock(g, i) ==
    IF i > Len(g.all_team) THEN [pc |-> "final_edit", idx |-> 0, ball |-> 0]
    ELSE IF ~InSeq(g.all_team[i], g.betted)
         THEN [pc |-> "unlock_team", idx |-> i, ball |-> g.all_team[i]]
         ELSE NextTeamUnlock(g, i + 1)

NextAwait(g, loop, i) ==
    IF loop = "bet" /\ i <= Len(g.betted)
    THEN [pc |-> "save", idx |-> i, ball |-> g.betted[i]]
    ELSE NextTeamUnlock(g, IF loop = "bet" THEN 1 ELSE i)

\* the transfer with winner and loser swapped
SaveOwnerLoser(g, b) == [owner EXCEPT ![b] = Other(g.winner)]
\* menu.py 470-471: ball.player = winner.player; await ball.save()
SaveOwner(g, b) == [owner EXCEPT ![b] = g.winner]

\* menu.py 468-523: the await tgt is issued; ok: it will return, else raise.
\* Reaching the edit runs 478-517 first: teams and bets cleared, view stopped.
\* tag: the embed's description when the edit is not reached yet.
SettleIssue(h, m, g, tgt, ok, tag) ==
    /\ proc' = [proc EXCEPT ![h].pc = tgt.pc, ![h].flag = ~ok]
    /\ game' = [game EXCEPT ![h] = [g EXCEPT !.idx = tgt.idx]]
    /\ owner' = IF tgt.pc = "save" /\ ok THEN SaveOwner(g, tgt.ball) ELSE owner
    /\ balllock' = IF tgt.pc \in {"unlock_bet", "unlock_team"} /\ ok
                   THEN Unlock(tgt.ball) ELSE balllock
    /\ IF tgt.pc = "final_edit"
       THEN /\ team' = [team EXCEPT ![m] = [p \in Players |-> EmptyTeam]]
            /\ bets' = [bets EXCEPT ![m] = [p \in Players |-> <<>>]]
            /\ finished' = [finished EXCEPT ![m] = TRUE]
            /\ embed' = [embed EXCEPT ![m] = "complete"]
       ELSE /\ embed' = [embed EXCEPT ![m] = tag]
            /\ UNCHANGED <<team, bets, finished>>

\* menu.py 460-471: winner.won, the lists, the first await of the try block.
\* The scores (g0) are from here on only formatted into the result message:
\* the record keeps the winner and the two lists.
SettleBegin(h, m, g0, w, ok, tag) ==
    LET all == AllTeamBalls(m, w)
        g == [GIdle EXCEPT !.winner = w, !.all_team = all, !.betted = BettedBalls(m, all)]
    IN /\ won' = [won EXCEPT ![m][w] = TRUE]
       /\ SettleIssue(h, m, g, NextAwait(g, "bet", 1), ok, tag)

SettlePcs == {"save", "unlock_bet", "unlock_team", "final_edit", "send"}

\* menu.py 468-527: an await of the try block has returned, or raised into the
\* except clause, which awaits cancel()
SettleStep(h, ok) ==
    /\ proc[h].kind = "lock"
    /\ proc[h].pc \in SettlePcs
    /\ LET r == proc[h]
           g == game[h]
           b == IF r.pc = "unlock_team" THEN g.all_team[g.idx]
                ELSE IF r.pc \in {"save", "unlock_bet"} THEN g.betted[g.idx] ELSE 0
       IN IF r.flag
          THEN /\ CancelStart(h, r.m, "error")
               /\ UNCHANGED <<owner, team, bets, game>>
          ELSE IF r.pc = "send"
          THEN /\ Raise(h)
               /\ UNCHANGED <<owner, team, bets, task, balllock, finished, embed>>
          ELSE /\ SettleIssue(h, r.m, g,
                      CASE r.pc = "save" -> [pc |-> "unlock_bet", idx |-> g.idx, ball |-> b]
                        [] r.pc = "unlock_bet" -> NextAwait(g, "bet", g.idx + 1)
                        [] r.pc = "unlock_team" -> NextAwait(g, "team", g.idx + 1)
                        [] r.pc = "final_edit" -> [pc |-> "send", idx |-> 0, ball |-> 0],
                      ok, embed[r.m])
               /\ UNCHANGED task
    /\ UNCHANGED <<games, locked, cancelled, won>>
    /\ UNCHANGED <<player1, match_events, cfvars>>

\* menu.py 367-392: after the last round: the higher score wins; a draw goes to
\* penalties after an edit (ok: it returns)
GameFinal(h, ok) ==
    /\ At(h, "lock", "final")
    /\ LET m == proc[h].m
           g == game[h]
       IN IF g.score[1] # g.score[2]
          THEN /\ SettleBegin(h, m, g, IF g.score[1] > g.score[2] THEN 1 ELSE 2, ok,
                              embed[m])
               /\ UNCHANGED <<task, match_events>>
          ELSE /\ embed' = [embed EXCEPT ![m] = "penalties"]
               /\ match_events' = [match_events EXCEPT ![m] = @ + 1]
               /\ IF ~ok
                  THEN Raise(h)
                  ELSE /\ game' = [game EXCEPT ![h] = [g EXCEPT !.round = 1]]
                       /\ proc' = [proc EXCEPT ![h].pc = "penalty"]
               /\ UNCHANGED <<team, bets, won, task, finished, owner, balllock>>
    /\ UNCHANGED <<games, locked, cancelled>>
    /\ UNCHANGED <<player1, cfvars>>

\* random.random() in percent: one value in each interval that the chances
\* 50, 60 and 70 cut
Rolls == {45, 55, 65, 75}

\* random.choice over a list, as an index; one choice when the list is empty
Picks(s) == IF s = <<>> THEN {1} ELSE 1..Len(s)

\* the random draws of one attempt of participant p: forward, keeper, roll
Shots(m, p) == [fw : Picks(team[m][p]["FW"]), gk : Picks(team[m][Other(p)]["GK"]),
                roll : Rolls]

\* the chance 60 for every pair
success_chance_flat(shooter, gk) == 60
\* menu.py 408-416: the chance of a goal in percent, from attack + health of
\* the shooter and of the keeper
success_chance(shooter, gk) ==
    LET shooter_strength == attack(shooter) + health(shooter)
        gk_strength == attack(gk) + health(gk)
    IN IF shooter_strength > gk_strength THEN 70
       ELSE IF gk_strength > shooter_strength THEN 50 ELSE 60

\* menu.py 404: the attempt is made with a forward and a keeper
CanShoot(m, shooter_player) ==
    team[m][shooter_player]["FW"] # <<>> /\ team[m][Other(shooter_player)]["GK"] # <<>>

\* menu.py 399-427: one attempt: skipped without a forward or without a keeper
Attempt(g, m, shooter_player, shot) ==
    LET forwards == team[m][shooter_player]["FW"]
        goalkeepers == team[m][Other(shooter_player)]["GK"]
    IN IF CanShoot(m, shooter_player)
       THEN [g EXCEPT !.pen = IF shot.roll < success_chance(forwards[shot.fw],
                                                           goalkeepers[shot.gk])
                              THEN AddOne(@, shooter_player) ELSE @]
       ELSE g

\* the coin decides every shootout
PenaltyWinnerByCoin(g, coin) == coin
\* menu.py 444-455: the higher penalty score wins, else secrets.choice (coin)
PenaltyWinner(g, coin) ==
    IF g.pen[1] > g.pen[2] THEN 1 ELSE IF g.pen[2] > g.pen[1] THEN 2 ELSE coin

\* menu.py 395-442: one penalty round, from the sleep to the edit: player1
\* shoots, then player2, the embed is written and the edit is awaited (ok: it
\* returns).  After the first two rounds the loop goes on to the next sleep;
\* the edit of the third round is awaited at "decide".
GamePenalty(h, shot1, shot2, ok) ==
    /\ At(h, "lock", "penalty")
    /\ LET m == proc[h].m
           g == Attempt(Attempt(game[h], m, 1, shot1), m, 2, shot2)
       IN /\ embed' = [embed EXCEPT ![m] = "penalties"]
          /\ match_events' = [match_events EXCEPT ![m] =
                                 @ + (IF CanShoot(m, 1) THEN 1 ELSE 0)
                                   + (IF CanShoot(m, 2) THEN 1 ELSE 0)]
          /\ IF ~ok
             THEN Raise(h)
             ELSE /\ game' = [game EXCEPT ![h] =
                          [g EXCEPT !.round = IF @ < PenaltyRounds THEN @ + 1 ELSE @]]
                  /\ proc' = [proc EXCEPT ![h].pc =
                                  IF g.round < PenaltyRounds THEN "penalty" ELSE "decide"]
    /\ UNCHANGED <<games, team, bets, locked, cancelled, won, task, finished,
                   owner, balllock>>
    /\ UNCHANGED <<player1, cfvars>>

\* menu.py 444-471: the edit of the third round has returned: the winner is
\* decided (coin: secrets.choice on equal penalty scores, with one more log
\* entry), winner.won is set and the first await of the settlement is issued
\* (ok: it returns).  The embed is not written here.
GameDecide(h, coin, ok) ==
    /\ At(h, "lock", "decide")
    /\ LET m == proc[h].m
           g == game[h]
       IN /\ SettleBegin(h, m, g, PenaltyWinner(g, coin), ok, embed[m])
          /\ match_events' = [match_events EXCEPT ![m] =
                                 IF g.pen[1] = g.pen[2] THEN @ + 1 ELSE @]
    /\ UNCHANGED <<games, locked, cancelled, task>>
    /\ UNCHANGED <<player1, cfvars>>

\* ------------------------------------------------------------ initial states
InitCommon ==
    /\ cancelled = [m \in Matches |-> [p \in Players |-> FALSE]]
    /\ won = [m \in Matches |-> [p \in Players |-> FALSE]]
    /\ locked = [m \in Matches |-> [p \in Players |-> FALSE]]
    /\ finished = [m \in Matches |-> FALSE]
    /\ embed = [m \in Matches |-> "building"]
    /\ owner = [b \in Balls |-> OwnerInit(b)]
    /\ proc = [h \in Slots |-> Idle]
    /\ game = [h \in Slots |-> GIdle]
    /\ player1 = [m \in Matches |-> 1]
    /\ match_events = [m \in Matches |-> 0]

\* Match 1 has just been started: GameMenu.start() has run, nobody has a team.
InitFresh ==
    /\ InitCommon
    /\ CfQuiet
    /\ games = {1}
    /\ task = [m \in Matches |-> IF m = 1 THEN "running" ELSE "none"]
    /\ team = [m \in Matches |-> [p \in Players |-> EmptyTeam]]
    /\ bets = [m \in Matches |-> [p \in Players |-> <<>>]]
    /\ balllock = [b \in Balls |-> FALSE]

\* ------------------------------------------------ team building, in sequence
\* Player 1 of match 1 issues add, remove and Reset, one handler at a time.
SeqAdd == \E b \in OwnedBalls(1), position \in PositionInputs :
              AddBegin(1, 1, 1, b, position)
SeqRemove == \E b \in OwnedBalls(1) : RemoveBegin(1, 1, 1, b)
SeqClear == ClearBegin(1, 1, 1)
SeqStep ==
    \/ AddDefer(1) \/ (\E accept \in BOOLEAN : AddConfirm(1, accept))
    \/ AddCheck(1) \/ AddAppend(1) \/ RemoveFinish(1)
    \/ ClearDefer(1)
    \/ (\E accept \in BOOLEAN : ClearConfirm(1, accept)) \/ ClearStep(1)

NextSeq == SeqAdd \/ SeqRemove \/ SeqClear \/ SeqStep

SpecSeq == InitFresh /\ [][NextSeq]_vars

\* C1: in every state of sequentially issued add, remove and Reset, no roster
\* position of the participant holds more balls than its capacity
\* (GK 1, DF 4, MF 3, FW 3), and an add into a full position leaves it as it is.
SeqCapacity ==
    /\ \A pos \in PosSet : Len(team[1][1][pos]) <= position_caps[pos]
    /\ \A pos \in PosSet :
          (At(1, "add", "lock_for_trade") /\ proc[1].pos = pos)
              => Len(team[1][1][pos]) < position_caps[pos]

\* a full position met by an add that is about to be rejected
SeqCapacityWitness ==
    /\ At(1, "add", "is_locked")
    /\ ~proc[1].flag
    /\ proc[1].pos = "DF"
    /\ Len(team[1][1]["DF"]) = position_caps["DF"]


\* ------------------------------------------------------ one match, prepared
\* Match 1 in team building: both participants have added one ball to every
\* position (ball 1..4 of each user, trade-locked by the adds); ball 5 is free.
InitReady ==
    /\ InitCommon
    /\ CfQuiet
    /\ games = {1}
    /\ task = [m \in Matches |-> IF m = 1 THEN "running" ELSE "none"]
    /\ team = [m \in Matches |-> [p \in Players |->
                  IF m = 1 THEN MinTeam(p) ELSE EmptyTeam]]
    /\ bets = [m \in Matches |-> [p \in Players |-> <<>>]]
    /\ balllock = [b \in Balls |-> \E p \in Players : InTeam(MinTeam(p), b)]

\* The commands the participants issue in the prepared match.
Spare(p) == Base(p) + 5
Forward(p) == Base(p) + 4
\* the forward is in the team, the spare ball is a favourite, the last is not tradeable
AddInputs(p) == IF p = 1 THEN {Forward(p), Spare(p), BallsPerUser} ELSE {}
AddPositions == {"GK", "fw", "xx"}
RemoveInputs(p) == IF p = 1 THEN {Forward(p), Spare(p)} ELSE {}
BetInputs(p) == IF p = 1 THEN {Forward(p), Spare(p), BallsPerUser} ELSE {Forward(p)}

Add(S, m) == \E h \in S, p \in Players : \E b \in AddInputs(p), position \in AddPositions :
                AddBegin(h, channel(m), p, b, position)
Remove(S, m) == \E h \in S, p \in Players : \E b \in RemoveInputs(p) : RemoveBegin(h, m, p, b)
Bet(S, m) == \E h \in S, p \in Players : \E b \in BetInputs(p) : BetBegin(h, m, p, b)
Clear(S, m) == \E h \in S : ClearBegin(h, m, 1)
Lock(S, m, P) == \E h \in S, p \in P : LockBegin(h, m, p)
PressCancel(S, m, P) == \E h \in S, p \in P : CancelButton(h, m, p)
TypeCancel(S, m, P) == \E h \in S, p \in P : CancelCommand(h, m, p)
Refresh(m) == \E outcome \in RefreshOutcomes, landed \in BOOLEAN :
                  RefreshTick(m, outcome, landed)

\* A handler in flight resumes after its await.
ResumeBuild(h) ==
    \/ AddDefer(h) \/ (\E accept \in BOOLEAN : AddConfirm(h, accept))
    \/ AddCheck(h) \/ AddAppend(h) \/ RemoveFinish(h)
    \/ BetCheck(h) \/ BetAppend(h)
    \/ ClearDefer(h)
    \/ (\E accept \in BOOLEAN : ClearConfirm(h, accept)) \/ ClearStep(h)

ResumeCancel(h) ==
    \/ (\E accept \in BOOLEAN : CancelConfirm(h, accept)) \/ CancelStep(h)

ResumeGame(h) ==
    \/ LockSet(h)
    \/ (\E ok \in BOOLEAN : GameStart(h, ok))
    \/ (\E favoured, ok \in BOOLEAN, event_type \in EventTypes :
            GameRound(h, favoured, event_type, ok))
    \/ (\E ok \in BOOLEAN : GameFinal(h, ok))
    \/ /\ At(h, "lock", "penalty")
       /\ \E shot1 \in Shots(proc[h].m, 1), shot2 \in Shots(proc[h].m, 2),
             ok \in BOOLEAN :
               GamePenalty(h, shot1, shot2, ok)
    \/ (\E coin \in Players, ok \in BOOLEAN : GameDecide(h, coin, ok))
    \/ (\E ok \in BOOLEAN : SettleStep(h, ok))

\* One prepared match, its handlers run one after another (slot 1 only).
Next ==
    \/ Add({1}, 1) \/ Remove({1}, 1) \/ Bet({1}, 1) \/ Clear({1}, 1)
    \/ Lock({1}, 1, Players) \/ PressCancel({1}, 1, Players)
    \/ TypeCancel({1}, 1, Players) \/ Refresh(1) \/ ViewTimeout(1)
    \/ ResumeBuild(1) \/ ResumeCancel(1) \/ ResumeGame(1)

Spec == InitReady /\ [][Next]_vars

\* One prepared match; participant 1 builds and locks, handlers interleave.
NextRace ==
    \/ Add(Slots, 1) \/ Remove(Slots, 1) \/ Bet(Slots, 1) \/ Clear(Slots, 1)
    \/ Lock(Slots, 1, {1})
    \/ \E h \in Slots : ResumeBuild(h) \/ LockSet(h)

SpecRace == InitReady /\ [][NextRace]_vars

\* One prepared match; participant 1 bets, both lock (no participant presses
\* Lock again while the press is being handled), and participant 1 presses
\* Cancel game while the simulation runs: the cancel handler interleaves with
\* the handler that runs the simulation.
LockOnce(S, m) ==
    \E h \in S, p \in Players :
        /\ \A g \in Slots : ~(proc[g].kind = "lock" /\ proc[g].p = p)
        /\ LockBegin(h, m, p)

Simulating(m) ==
    \E g \in Slots : /\ proc[g].kind = "lock" /\ proc[g].m = m
                     /\ proc[g].pc \in {"round", "final", "penalty", "decide"}

CancelInGame(S, m) == \E h \in S : Simulating(m) /\ CancelButton(h, m, 1)

NextCancel ==
    \/ (\E h \in Slots : BetBegin(h, 1, 1, Forward(1)))
    \/ LockOnce(Slots, 1) \/ CancelInGame(Slots, 1) \/ ViewTimeout(1)
    \/ \E h \in Slots : BetCheck(h) \/ ResumeCancel(h) \/ ResumeGame(h)

SpecCancel == InitReady /\ [][NextCancel]_vars

\* Two fresh matches of the same two users (two channels); user 1 adds and
\* removes the same balls in both, handlers interleave.
InitTwo ==
    /\ InitCommon
    /\ CfQuiet
    /\ games = {1, 2}
    /\ task = [m \in Matches |-> IF m \in {1, 2} THEN "running" ELSE "none"]
    /\ team = [m \in Matches |-> [p \in Players |-> EmptyTeam]]
    /\ bets = [m \in Matches |-> [p \in Players |-> <<>>]]
    /\ balllock = [b \in Balls |-> FALSE]

\* neither is a favourite: these adds open no dialog
TwoBalls == {1, 3}
TwoPositions == {"GK", "DF"}

NextTwo ==
    \/ (\E h \in Slots, m \in {1, 2}, b \in TwoBalls, position \in TwoPositions :
            AddBegin(h, channel(m), 1, b, position))
    \/ (\E h \in Slots, m \in Matches, b \in TwoBalls : RemoveBegin(h, m, 1, b))
    \/ \E h \in Slots : AddDefer(h) \/ AddCheck(h) \/ AddAppend(h) \/ RemoveFinish(h)

SpecTwo == InitTwo /\ [][NextTwo]_vars


\* ------------------------------------------------------------------ claims
\* a started match that has neither settled nor been cancelled
Active(m) == task[m] # "none" /\ ~Stale(m)
Rostered(m, b) == \E p \in Players : InTeam(team[m][p], b)
Wagered(m, b) == \E p \in Players : InSeq(b, bets[m][p])
CancelReasons == {"cancelled", "timed_out", "error"}
\* cancel() has run to its end: the view is stopped and the embed tells why
IsCancelled(m) == finished[m] /\ embed[m] \in CancelReasons
NoHandler == \A h \in Slots : proc[h] = Idle

\* C2: no ball is in the rosters of two different active matches at once,
\* however the add handlers of the two matches interleave.
OneRosterPerBall ==
    \A b \in Balls : \A m1, m2 \in Matches :
        (m1 # m2 /\ Active(m1) /\ Active(m2)) => ~(Rostered(m1, b) /\ Rostered(m2, b))

\* C3: once a match is cancelled, no step changes an owner, marks a winner or
\* starts a simulation of it.
CancelledStaysQuiet ==
    [][\A m \in Matches : IsCancelled(m) =>
          /\ owner' = owner
          /\ won'[m] = won[m]
          /\ \A h \in Slots : (proc'[h].m = m /\ proc'[h].pc = "start_edit")
                                 => proc[h].pc = "start_edit"]_vars

\* C4: when a match has settled, every ball is unlocked (the match is the only
\* one to lock balls here) and both rosters and both wager lists are empty.
SettledReleasesAll ==
    \A m \in Matches : embed[m] = "complete" =>
        /\ \A b \in Balls : ~balllock[b]
        /\ \A p \in Players : team[m][p] = EmptyTeam /\ bets[m][p] = <<>>

\* C5: after a participant's cancel during team building has run to its end,
\* every ball is unlocked, the canceller's flag is set, no ball changed owner.
BuildCancelReleasesAll ==
    \A m \in Matches :
        (embed[m] = "cancelled" /\ finished[m] /\ ~BothLocked(locked[m])) =>
            /\ \A b \in Balls : ~balllock[b]
            /\ \E p \in Players : cancelled[m][p]
            /\ owner = [b \in Balls |-> OwnerInit(b)]

\* the refresh task ends itself: no handler takes a step
RefreshCancels(m) == task[m] = "running" /\ task'[m] = "done" /\ proc' = proc

\* C6: a step by which the refresh task cancels the match (deadline passed or
\* refresh failed) leaves the match cancelled and every ball unlocked.
TimeoutReleasesAll ==
    [][\A m \in Matches : RefreshCancels(m) =>
          (finished'[m] /\ \A b \in Balls : ~balllock'[b])]_vars

\* C7: from the moment a participant is locked until the match ends, no step
\* changes that participant's roster or wager list.
LockedTeamFrozen ==
    [][\A m \in Matches, p \in Players : (locked[m][p] /\ Active(m)) =>
          (team'[m][p] = team[m][p] /\ bets'[m][p] = bets[m][p])]_vars

\* the step is participant p of match m issuing remove or bet
\* (what the commands have in common is tested first)
IssuedBy(m, p) ==
    \E h \in Slots :
        /\ FreeSlot(h)
        /\ UNCHANGED <<bets, locked, cancelled, won, task, finished, embed,
                       owner, game>>
        /\ \E b \in Balls : RemoveBegin(h, m, p, b) \/ BetBegin(h, m, p, b)

\* the step is participant p of match m pressing Reset, or issuing add in the
\* channel while m is the match get_game finds there
HandlerIssuedBy(m, p) ==
    \E h \in Slots :
        /\ FreeSlot(h)
        /\ UNCHANGED <<games, bets, locked, cancelled, won, task, finished, embed,
                       owner, game>>
        /\ \/ ClearBegin(h, m, p)
           \/ /\ FoundGame(channel(m)) = m
              /\ \E b \in Balls, position \in PositionInputs :
                     AddBegin(h, channel(m), p, b, position)

\* a handler of participant p that has not passed its check of player.locked
\* yet: an add that awaits defer() or its dialog in the channel where get_game
\* finds m, a Reset of m that awaits defer() or its dialog
Pending(h, m, p) ==
    /\ proc[h].p = p
    /\ proc[h].pc \in {"defer", "confirm"}
    /\ \/ proc[h].kind = "add" /\ FoundGame(proc[h].ch) = m
       \/ proc[h].kind = "clear" /\ proc[h].m = m

\* C8: a locked flag is never reset, and an add, remove, bet or Reset the
\* locked participant issues is rejected: remove and bet start no handler; an
\* add or a Reset that is issued, or that comes back from defer() or from its
\* dialog, while the participant is locked goes no further than the dialog
\* and returns; the rosters, the wager lists and the trade-locks stay as they
\* are in each of these steps.
LockedForGood ==
    [][\A m \in Matches, p \in Players : locked[m][p] =>
          /\ locked'[m][p]
          /\ IssuedBy(m, p) => UNCHANGED <<proc, team, bets, balllock>>
          /\ HandlerIssuedBy(m, p) => UNCHANGED <<team, bets, balllock>>
          /\ \A h \in Slots :
                 (Pending(h, m, p) /\ proc'[h] # proc[h]) =>
                     /\ UNCHANGED <<team, bets, balllock>>
                     /\ \/ proc'[h] = Idle
                        \/ /\ proc[h].kind = "add" /\ proc[h].pc = "defer"
                           /\ proc'[h] = [proc[h] EXCEPT !.pc = "confirm"]]_vars

\* participant 1 is locked and the match is on; the participant has issued
\* an add of the spare ball, free and in no team, into a position with room,
\* and has confirmed the dialog or not: the flag alone rejects the add
LockedForGoodWitness ==
    /\ locked[1][1] /\ ~locked[1][2]
    /\ Active(1)
    /\ At(1, "add", "confirm") /\ FoundGame(proc[1].ch) = 1
    /\ proc[1].ball = Spare(1) /\ proc[1].pos = "FW"
    /\ ~balllock[Spare(1)] /\ ~InTeam(team[1][1], Spare(1))
    /\ Len(team[1][1]["FW"]) < position_caps["FW"]

SettleLoopPcs == {"save", "unlock_bet", "unlock_team"}
SettleDonePcs == {"final_edit", "send"}

\* C9: settlement gives the winner every wagered ball that is in a roster when
\* settlement begins, and changes the owner of no other ball.
WinnerTakesBets ==
    \A h \in Slots : (proc[h].kind = "lock" /\ proc[h].pc \in SettlePcs) =>
        LET m == proc[h].m
            g == game[h]
        IN /\ won[m][g.winner]
           /\ proc[h].pc \in SettleLoopPcs =>
                 \A b \in Balls : InSeq(b, g.betted) <=> (Wagered(m, b) /\ Rostered(m, b))
           /\ \A b \in Balls : ~InSeq(b, g.betted) => owner[b] = OwnerInit(b)
           /\ (proc[h].pc \in SettleDonePcs /\ ~proc[h].flag) =>
                 \A b \in Balls : InSeq(b, g.betted) => owner[b] = g.winner

\* the match has settled and a ball wagered by the loser went to the winner
WinnerTakesBetsWitness ==
    \E h \in Slots :
        /\ proc[h].kind = "lock" /\ proc[h].pc = "send"
        /\ \E b \in Balls : /\ InSeq(b, game[h].betted)
                            /\ OwnerInit(b) # game[h].winner
                            /\ owner[b] = game[h].winner
        /\ balllock[Spare(1)]

\* C10: after settlement raised and the cancel it triggers has run to its end,
\* no ball is locked.
ErrorCancelReleasesAll ==
    \A m \in Matches : (embed[m] = "error" /\ finished[m]) => \A b \in Balls : ~balllock[b]

\* a Lock team handler that has entered execute_game
InGame(h) == proc[h].kind = "lock" /\ proc[h].pc # "defer"
BuildTags == {"building"} \cup CancelReasons

\* C11: a handler is inside execute_game only while both participants' locked
\* flags are set; with one flag set the match shows no simulation and no winner.
SimulationNeedsBoth ==
    /\ \A h \in Slots : InGame(h) => \A p \in Players : locked[proc[h].m][p]
    /\ \A m \in Matches : (\E p \in Players : ~locked[m][p]) =>
           /\ embed[m] \in BuildTags
           /\ \A p \in Players : ~won[m][p]

\* the second participant's lock has just entered execute_game
SimulationNeedsBothWitness ==
    \E h \in Slots : At(h, "lock", "start_edit") /\ \A p \in Players : locked[proc[h].m][p]

\* C12: a step that sets a participant's locked flag leaves that participant
\* with at least one ball in each of GK, DF, MF and FW.
LockedWithMinimumTeam ==
    [][\A m \in Matches, p \in Players :
          (~locked[m][p] /\ locked'[m][p]) => has_minimum_team(team'[m][p])]_vars

\* ------------------------------------------------ one match, played to its end
\* The prepared match without wagers: the participants press Lock team and the
\* handler that enters execute_game runs on.  A coroutine whose await has
\* completed or raised is resumed by the event loop, and asyncio.sleep always
\* completes: the steps of a handler in flight are fair.  Nobody has to press.
LivePress == Lock({1}, 1, Players)
LiveGame == ResumeGame(1)
LiveCancel == CancelStep(1)
NextLive == LivePress \/ LiveGame \/ LiveCancel

SpecLive == InitReady /\ [][NextLive]_vars /\ WF_vars(LiveGame) /\ WF_vars(LiveCancel)

Decided(m) == \E p \in Players : won[m][p]

\* C13: the two participants are never both marked as winner, and once
\* execute_game has been entered a winner is eventually marked.
AlwaysDecides ==
    /\ [](\A m \in Matches : ~(won[m][1] /\ won[m][2]))
    /\ \A m \in Matches :
          (\E h \in Slots : InGame(h) /\ proc[h].m = m) ~> Decided(m)

\* ------------------------------------------------------------- /game start
\* cog.py 106-137: the challenger names themself, or get_game finds a match of
\* the channel for the challenger or for the challenged user
StartRejected(m, u, target) ==
    \/ target = u
    \/ \E m0 \in Matches : channel(m0) = channel(m) /\ GetGame(m0, u)
    \/ \E m0 \in Matches : channel(m0) = channel(m) /\ GetGame(m0, target)

\* a GameMenu that has not been constructed yet
Fresh(m) ==
    /\ task[m] = "none" /\ m \notin games /\ ~Stale(m)
    /\ \A h \in Slots : proc[h].m # m

\* cog.py 94-149 and menu.py 209-213: the checks, the GameMenu m appended to the
\* channel's list, up to the await of channel.send() in GameMenu.start
StartBegin(h, m, u, target) ==
    /\ FreeSlot(h)
    /\ Fresh(m)
    /\ games' = IF target = u THEN games
                ELSE IF StartRejected(m, u, target) THEN Purged(channel(m))
                ELSE Purged(channel(m)) \cup {m}
    /\ proc' = IF StartRejected(m, u, target) THEN proc
               ELSE [proc EXCEPT ![h] = Start("start", m, u, 0, "", "send")]
    /\ player1' = IF StartRejected(m, u, target) THEN player1
                  ELSE [player1 EXCEPT ![m] = u]
    /\ UNCHANGED <<team, bets, locked, cancelled, won, task, finished, embed,
                   owner, balllock, game>>
    /\ UNCHANGED <<match_events, cfvars>>

\* menu.py 213-220, cog.py 150: the message is sent, the refresh task created
StartSent(h) ==
    /\ At(h, "start", "send")
    /\ task' = [task EXCEPT ![proc[h].m] = "running"]
    /\ Return(h)
    /\ UNCHANGED <<games, team, bets, locked, cancelled, won, finished, embed,
                   owner, balllock, game>>
    /\ UNCHANGED <<player1, match_events, cfvars>>

\* cog.py 33: TTLCache(ttl=1800) keyed by guild.  The guild's entry is set by
\* the first get_game of the guild (cog.py 65-66) and expires 1800 s after that,
\* whatever is read from it or appended to its lists in between: a match that
\* starts when the entry is t seconds old loses its registration at the age of
\* 1800 - t seconds, any age up to 30 minutes.  The next get_game sets a new,
\* empty entry.
Expire ==
    /\ games # {}
    /\ games' = {}
    /\ UNCHANGED <<team, bets, locked, cancelled, won, task, finished, embed,
                   owner, balllock, proc, game>>
    /\ UNCHANGED <<player1, match_events, cfvars>>

\* No match yet; the users start matches in the two channels and cancel them.
NoMatch ==
    /\ InitCommon
    /\ games = {}
    /\ task = [m \in Matches |-> "none"]
    /\ team = [m \in Matches |-> [p \in Players |-> EmptyTeam]]
    /\ bets = [m \in Matches |-> [p \in Players |-> <<>>]]
    /\ balllock = [b \in Balls |-> FALSE]

InitNone == NoMatch /\ CfQuiet

StartCommand == \E h \in Slots, m \in Matches, u \in Players, target \in Players :
                    StartBegin(h, m, u, target)

NextStart ==
    \/ StartCommand
    \/ (\E h \in Slots : StartSent(h))
    \/ (\E m \in Matches : PressCancel(Slots, m, {1}) \/ TypeCancel(Slots, m, {2}))
    \/ (\E h \in Slots : ResumeCancel(h))
    \/ Expire

SpecStart == InitNone /\ [][NextStart]_vars

\* C14: no two matches of the same channel are active at once (both users are
\* participants of each): a start in a channel with an active match is rejected.
OneMatchPerChannel ==
    \A m1, m2 \in Matches :
        (m1 # m2 /\ channel(m1) = channel(m2)) => ~(Active(m1) /\ Active(m2))

\* an add, remove or bet is issued with one of the reasons to reject it at once:
\* a ball that is not tradeable, an invalid position; a ball that is not in
\* the team; a ball that is not tradeable or already bet
IssuedInVain ==
    /\ UNCHANGED <<locked, cancelled, won, task, finished, embed, game>>
    /\ \E h \in Slots, m \in Matches, p \in Players, b \in Balls :
        /\ FreeSlot(h) /\ owner[b] = p
        /\ \/ ~is_tradeable(b) /\ \E position \in PositionInputs :
                                     AddBegin(h, channel(m), p, b, position)
           \/ AddBegin(h, channel(m), p, b, "xx")
           \/ ~InTeam(team[m][p], b) /\ RemoveBegin(h, m, p, b)
           \/ (~is_tradeable(b) \/ InSeq(b, bets[m][p])) /\ BetBegin(h, m, p, b)

\* an add comes back from defer() (no dialog to open) or from its dialog with
\* the ball already in the team of the match get_game finds; an add resumes with the ball trade-locked or
\* the position at its capacity; a bet resumes with a ball that is
\* trade-locked and not in the team
ResumedInVain(h) ==
    /\ proc'[h] # proc[h]
    /\ \/ /\ proc[h].kind = "add"
          /\ \/ proc[h].pc = "defer" /\ ~favorite(proc[h].ball)
             \/ proc[h].pc = "confirm"
          /\ FoundGame(proc[h].ch) # 0
          /\ InTeam(team[FoundGame(proc[h].ch)][proc[h].p], proc[h].ball)
       \/ /\ At(h, "add", "is_locked")
          /\ \/ proc[h].flag
             \/ Len(team[proc[h].m][proc[h].p][proc[h].pos]) >= position_caps[proc[h].pos]
       \/ /\ At(h, "bet", "is_locked")
          /\ proc[h].flag /\ ~proc[h].in_team

\* C15: a step that rejects an add, a remove or a bet changes no roster, no
\* wager list, no trade-lock and no owner, and starts no handler.
RejectedChangesNothing ==
    [][/\ IssuedInVain => UNCHANGED <<team, bets, balllock, owner, proc>>
       /\ \A h \in Slots : ResumedInVain(h) =>
              /\ UNCHANGED <<team, bets, balllock, owner>>
              /\ proc'[h] = Idle]_vars

\* an add is about to be rejected for a ball that a bet in flight has locked,
\* into a position that is full
RejectedChangesNothingWitness ==
    \E h \in Slots :
        /\ At(h, "add", "is_locked") /\ proc[h].flag
        /\ Len(team[proc[h].m][proc[h].p][proc[h].pos]) >= position_caps[proc[h].pos]

\* both participants are locked with a valid team each and no wager
LockedWithoutWager(m) ==
    /\ BothLocked(locked[m])
    /\ \A p \in Players : has_minimum_team(team[m][p]) /\ bets[m][p] = <<>>

\* the match shows its result, one participant is marked as winner, every
\* ball is with its first owner
SettledWithoutTransfer(m) ==
    /\ finished[m] /\ embed[m] = "complete"
    /\ \E p \in Players : won[m][p] /\ ~won[m][Other(p)]
    /\ owner = [b \in Balls |-> OwnerInit(b)]

\* C16: once both participants are locked with a valid team each and without
\* a wager, the match runs its 10 rounds (no winner is marked before the tenth
\* round has been played), no step changes an owner, and the match eventually
\* settles: it shows its result with exactly one participant marked as winner
\* and every ball still with its owner.
NoWagerRunsToWinner ==
    /\ [][\A h \in Slots :
             (InGame(h) /\ \A p \in Players : bets[proc[h].m][p] = <<>>) =>
                 /\ owner' = owner
                 /\ \A p \in Players :
                        (~won[proc[h].m][p] /\ won'[proc[h].m][p]) =>
                            game[h].i = NumRounds /\ ~won'[proc[h].m][Other(p)]]_vars
    /\ \A m \in Matches : LockedWithoutWager(m) ~> SettledWithoutTransfer(m)

\* C17: a match whose simulation has begun eventually shows the result or a
\* cancellation, with its view stopped and no ball trade-locked, whether the
\* message edits of the rounds and of the penalty shootout return or raise.
SimulationEndsReleased ==
    \A m \in Matches :
        (\E h \in Slots : InGame(h) /\ proc[h].m = m)
            ~> (/\ finished[m]
                /\ embed[m] \in {"complete"} \cup CancelReasons
                /\ \A b \in Balls : ~balllock[b])

\* C18: in every state, with add handlers of one participant interleaving, no
\* roster position holds more balls than its capacity (GK 1, DF 4, MF 3, FW 3).
CapacityUnderInterleaving ==
    \A m \in Matches, p \in Players, pos \in PosSet :
        Len(team[m][p][pos]) <= position_caps[pos]

\* C19: in every state, with bet handlers of one participant interleaving, no
\* wager list contains a ball twice.
NoDoubleWager ==
    \A m \in Matches, p \in Players :
        \A i, j \in DOMAIN bets[m][p] : bets[m][p][i] = bets[m][p][j] => i = j

\* One prepared match; participant 1 bets, then participant 1 presses Cancel
\* game and participant 2 types the cancel command: two confirmation dialogs
\* are open at once and both may be confirmed.
NextTwice ==
    \/ Bet({1}, 1) \/ BetCheck(1) \/ BetAppend(1)
    \/ PressCancel(Slots, 1, {1}) \/ TypeCancel(Slots, 1, {2})
    \/ \E h \in Slots : ResumeCancel(h)

SpecTwice == InitReady /\ [][NextTwice]_vars

\* C20: a step of a cancel handler on a match that has already been cancelled
\* changes no trade-lock, no owner, no roster and no wager list.
SecondCancelChangesNothing ==
    [][\A h \in Slots :
          (/\ proc[h].kind = "cancel" /\ proc'[h] # proc[h]
           /\ IsCancelled(proc[h].m))
              => UNCHANGED <<balllock, owner, team, bets>>]_vars

\* the first cancel has returned, the second one is in its unlock loop
SecondCancelChangesNothingWitness ==
    \E h \in Slots :
        /\ At(h, "cancel", "cancel_unlock")
        /\ IsCancelled(proc[h].m)
        /\ \A p \in Players : cancelled[proc[h].m][p]
        /\ \A g \in Slots \ {h} : proc[g] = Idle

\* One prepared match in team building; add, remove, bet and Reset are issued
\* one after another.
NextBuild ==
    \/ Add({1}, 1) \/ Remove({1}, 1) \/ Bet({1}, 1) \/ Clear({1}, 1)
    \/ ResumeBuild(1)

SpecBuild == InitReady /\ [][NextBuild]_vars

\* C21: with no handler in flight, a ball is trade-locked exactly when it is in
\* a roster or a wager list of an active match: the match holds a lock on each
\* of its balls, and a ball that has left the match is unlocked.
LockedIffInMatch ==
    NoHandler =>
        \A b \in Balls :
            balllock[b] <=> \E m \in Matches : Active(m) /\ (Rostered(m, b) \/ Wagered(m, b))

\* C22: once a match has settled, no step of a cancel handler (button or
\* command, its dialog confirmed or not) sets a participant's cancelled flag
\* or replaces the result the match shows.
SettledIsTerminal ==
    [][\A h \in Slots :
          (/\ proc[h].kind = "cancel" /\ proc'[h] # proc[h]
           /\ embed[proc[h].m] = "complete")
              => /\ cancelled'[proc[h].m] = cancelled[proc[h].m]
                 /\ embed'[proc[h].m] = "complete"]_vars

\* C23: when a match has been cancelled (cancel() has run to its end), both
\* participants' rosters and wager lists are empty.
CancelledIsEmpty ==
    \A m \in Matches : IsCancelled(m) =>
        \A p \in Players : team[m][p] = EmptyTeam /\ bets[m][p] = <<>>

\* One prepared match; Lock team is pressed by both participants, also again
\* while a press is being handled, and every simulation that starts runs to
\* its end.  Every await returns, every round draws the event "goal", and in
\* the shootout participant 1 scores with every attempt.
DoubleGame(h) ==
    \/ LockSet(h)
    \/ GameStart(h, TRUE)
    \/ (\E favoured \in BOOLEAN : GameRound(h, favoured, "goal", TRUE))
    \/ GameFinal(h, TRUE)
    \/ /\ At(h, "lock", "penalty")
       /\ \E shot1 \in Shots(proc[h].m, 1), shot2 \in Shots(proc[h].m, 2) :
               /\ shot1.roll = 45 /\ shot2.roll \in {45, 75}
               /\ GamePenalty(h, shot1, shot2, TRUE)
    \/ (\E coin \in Players : GameDecide(h, coin, TRUE))
    \/ SettleStep(h, TRUE)

NextDouble == Lock(Slots, 1, Players) \/ \E h \in Slots : DoubleGame(h)

SpecDouble == InitReady /\ [][NextDouble]_vars

\* C24: at most one handler runs execute_game for a match, and a match never
\* has both participants marked as winner.
SimulatedOnce ==
    \A m \in Matches :
        /\ \A h1, h2 \in Slots :
               (InGame(h1) /\ InGame(h2) /\ proc[h1].m = m /\ proc[h2].m = m) => h1 = h2
        /\ ~(won[m][1] /\ won[m][2])

\* ------------------------------------------------- the simulation by itself
\* The rosters a simulation can start with: the minimum team, a team with two
\* forwards, and what a remove or a Reset racing with the Lock press leaves of
\* the minimum team (one position emptied, or everything).
SimTeams(p) ==
    {MinTeam(p), EmptyTeam,
     [MinTeam(p) EXCEPT !["DF"] = <<Base(p) + 4>>, !["FW"] = <<Base(p) + 2, Base(p) + 5>>]}
        \cup {[MinTeam(p) EXCEPT ![pos] = <<>>] : pos \in PosSet}

\* Participant 2 is locked; the Lock press of participant 1 has passed its
\* checks and awaits defer().
InitSim ==
    /\ games = {1}
    /\ task = [m \in Matches |-> IF m = 1 THEN "running" ELSE "none"]
    /\ \E t1 \in SimTeams(1), t2 \in SimTeams(2) :
          /\ team = [m \in Matches |-> [p \in Players |->
                        IF m # 1 THEN EmptyTeam ELSE IF p = 1 THEN t1 ELSE t2]]
          /\ balllock = [b \in Balls |-> InTeam(t1, b) \/ InTeam(t2, b)]
    /\ bets = [m \in Matches |-> [p \in Players |-> <<>>]]
    /\ locked = [m \in Matches |-> [p \in Players |-> m = 1 /\ p = 2]]
    /\ cancelled = [m \in Matches |-> [p \in Players |-> FALSE]]
    /\ won = [m \in Matches |-> [p \in Players |-> FALSE]]
    /\ finished = [m \in Matches |-> FALSE]
    /\ embed = [m \in Matches |-> "building"]
    /\ owner = [b \in Balls |-> OwnerInit(b)]
    /\ proc = [h \in Slots |-> IF h = 1 THEN Press("lock", 1, 1, "defer") ELSE Idle]
    /\ game = [h \in Slots |-> GIdle]
    /\ player1 = [m \in Matches |-> 1]
    /\ match_events = [m \in Matches |-> 0]
    /\ CfQuiet

SpecSim == InitSim /\ [][ResumeGame(1)]_vars

\* C25: a round changes the score only when the event drawn is "goal" and the
\* side that won the round has a forward: then that side's score grows by 1
\* and the other side's stays; the two scores sum to at most 10.
OnlyGoalsScore ==
    [][\A favoured \in BOOLEAN, event_type \in EventTypes :
          (At(1, "lock", "round") /\ GameRound(1, favoured, event_type, TRUE)) =>
              LET g == game[1]
                  side == IF favoured THEN g.stronger ELSE Other(g.stronger)
              IN /\ game'[1].score =
                       IF event_type = "goal" /\ team[proc[1].m][side]["FW"] # <<>>
                       THEN [g.score EXCEPT ![side] = @ + 1] ELSE g.score
                 /\ game'[1].score[1] + game'[1].score[2] <= NumRounds]_vars

\* after the tenth round: goals were scored, by a side with a forward against
\* a side without one
OnlyGoalsScoreWitness ==
    /\ At(1, "lock", "final")
    /\ game[1].score[1] + game[1].score[2] > 0
    /\ \E p \in Players : team[1][p]["FW"] = <<>> /\ team[1][Other(p)]["FW"] # <<>>

\* C26: a round whose event finds no ball in the pool it needs (FW of the round
\* winner for goal, GK of the winner for save, FW of the loser for offside, DF
\* of the winner for defense, MF of the loser for foul) adds no entry to the
\* event log and changes no score; every other round adds exactly one entry.
EmptyPoolSkipsEntry ==
    [][\A favoured \in BOOLEAN, event_type \in EventTypes :
          (At(1, "lock", "round") /\ GameRound(1, favoured, event_type, TRUE)) =>
              LET g == game[1]
                  tm == team[proc[1].m]
                  w == IF favoured THEN g.stronger ELSE Other(g.stronger)
                  l == Other(w)
                  pool == CASE event_type = "goal" -> tm[w]["FW"]
                            [] event_type = "save" -> tm[w]["GK"]
                            [] event_type = "offside" -> tm[l]["FW"]
                            [] event_type = "defense" -> tm[w]["DF"]
                            [] event_type = "foul" -> tm[l]["MF"]
              IN IF pool = <<>>
                 THEN /\ match_events'[proc[1].m] = match_events[proc[1].m]
                      /\ game'[1].score = g.score
                 ELSE match_events'[proc[1].m] = match_events[proc[1].m] + 1]_vars

\* after the tenth round: some rounds were logged and some were skipped
EmptyPoolSkipsEntryWitness ==
    /\ At(1, "lock", "final")
    /\ match_events[1] > 0 /\ match_events[1] < NumRounds
    /\ \E p \in Players : team[1][p]["MF"] = <<>> /\ team[1][Other(p)] = MinTeam(Other(p))

\* C27: while the rounds and the shootout run, the favoured side is the one
\* whose mean of attack + health over its rostered balls (0 for an empty
\* roster) is strictly greater, with chance 55 in 100; with equal means the
\* chance is 50 in 100.  The means are compared as fractions t1/c1 and t2/c2.
MeanStrengthFavours ==
    \A h \in Slots :
        (proc[h].kind = "lock" /\ proc[h].pc \in {"round", "final", "penalty", "decide"}) =>
            LET a1 == get_all_players(team[proc[h].m][1])
                a2 == get_all_players(team[proc[h].m][2])
                t1 == SumStats(a1)
                t2 == SumStats(a2)
                c1 == IF a1 = <<>> THEN 1 ELSE Len(a1)
                c2 == IF a2 = <<>> THEN 1 ELSE Len(a2)
            IN /\ t1 * c2 > t2 * c1 => (game[h].stronger = 1 /\ game[h].chance = 55)
               /\ t2 * c1 > t1 * c2 => (game[h].stronger = 2 /\ game[h].chance = 55)
               /\ t1 * c2 = t2 * c1 => game[h].chance = 50

\* participant 2 is favoured with fewer balls and a smaller total
MeanStrengthFavoursWitness ==
    /\ At(1, "lock", "round")
    /\ game[1].stronger = 2 /\ game[1].chance = 55
    /\ team[1][1] = MinTeam(1)
    /\ team[1][2] = [MinTeam(2) EXCEPT !["MF"] = <<>>]

\* C28: after the tenth round the shootout starts exactly when the scores are
\* equal, else the higher score wins; the shootout has 3 rounds, a side's
\* penalty score is at most the number of rounds played; after the third
\* round one side is marked as winner: the one with the higher penalty score,
\* and the one the coin names exactly when the penalty scores are equal.
ShootoutOnlyOnDraw ==
    /\ [](At(1, "lock", "penalty") =>
             /\ game[1].score[1] = game[1].score[2]
             /\ game[1].round \in 1..PenaltyRounds
             /\ \A p \in Players : game[1].pen[p] <= game[1].round - 1)
    /\ [][(At(1, "lock", "final") /\ proc'[1] # proc[1]) =>
             LET s == game[1].score
                 m == proc[1].m
             IN IF s[1] = s[2]
                THEN proc'[1].pc \in {"penalty", ""} /\ won'[m] = won[m]
                ELSE /\ proc'[1].pc \in SettlePcs
                     /\ won'[m] = [won[m] EXCEPT ![IF s[1] > s[2] THEN 1 ELSE 2] = TRUE]]_vars
    /\ [][(At(1, "lock", "penalty") /\ proc'[1] # proc[1]) =>
             /\ won'[proc[1].m] = won[proc[1].m]
             /\ proc'[1].pc = "decide" => game[1].round = PenaltyRounds
             /\ proc'[1].pc = "penalty" => game'[1].round = game[1].round + 1]_vars
    /\ [](At(1, "lock", "decide") =>
             LET g == game[1]
             IN /\ g.round = PenaltyRounds
                /\ g.pen[1] <= PenaltyRounds /\ g.pen[2] <= PenaltyRounds
                /\ \A coin \in Players :
                      PenaltyWinner(g, coin) =
                          IF g.pen[1] > g.pen[2] THEN 1
                          ELSE IF g.pen[2] > g.pen[1] THEN 2 ELSE coin)
    /\ [][At(1, "lock", "decide") =>
             LET g == game[1]
                 m == proc[1].m
             IN \/ proc'[1] = proc[1]
                \/ /\ proc'[1].pc \in SettlePcs
                   /\ IF g.pen[1] # g.pen[2]
                      THEN won'[m] = [won[m] EXCEPT ![IF g.pen[1] > g.pen[2] THEN 1 ELSE 2] = TRUE]
                      ELSE \E p \in Players : won'[m] = [won[m] EXCEPT ![p] = TRUE]]_vars

\* the third round of a shootout has been played and is level at two
\* penalties each: the coin decides
ShootoutOnlyOnDrawWitness ==
    /\ At(1, "lock", "decide")
    /\ game[1].pen = <<2, 2>>

\* C29: in a penalty round each side's attempt is skipped (no penalty score
\* change, no log entry) when the shooting side has no forward or the other
\* side has no goalkeeper; otherwise it adds one log entry and scores exactly
\* when the roll is below the chance, which is 70 in 100 when the shooter's
\* attack + health is greater than the keeper's, 50 when the keeper's is
\* greater and 60 when they are equal.
PenaltyChances ==
    [][At(1, "lock", "penalty") =>
          \A shot1 \in Shots(proc[1].m, 1), shot2 \in Shots(proc[1].m, 2) :
              GamePenalty(1, shot1, shot2, TRUE) =>
                  LET tm == team[proc[1].m]
                      can(p) == tm[p]["FW"] # <<>> /\ tm[Other(p)]["GK"] # <<>>
                      stat(b) == attack(b) + health(b)
                      chance(p, shot) ==
                          LET s == stat(tm[p]["FW"][shot.fw])
                              k == stat(tm[Other(p)]["GK"][shot.gk])
                          IN IF s > k THEN 70 ELSE IF k > s THEN 50 ELSE 60
                      goal(p, shot) == IF can(p) /\ shot.roll < chance(p, shot) THEN 1 ELSE 0
                      entry(p) == IF can(p) THEN 1 ELSE 0
                  IN /\ game'[1].pen = <<game[1].pen[1] + goal(1, shot1),
                                         game[1].pen[2] + goal(2, shot2)>>
                     /\ match_events'[proc[1].m] =
                            match_events[proc[1].m] + entry(1) + entry(2)]_vars

\* the second round of a shootout: participant 1, with two forwards, has
\* scored; participant 2 has no forward and its attempt was skipped
PenaltyChancesWitness ==
    /\ At(1, "lock", "penalty")
    /\ game[1].round = 2 /\ game[1].pen = <<1, 0>>
    /\ Len(team[1][1]["FW"]) = 2
    /\ team[1][2]["FW"] = <<>> /\ team[1][2]["GK"] # <<>>

\* C30: the refresh task is alive only while the match is in team building
\* with at most one participant locked: not once the match shows a simulation,
\* a result or a cancellation, or its view is stopped.
RefreshOnlyWhileBuilding ==
    \A m \in Matches :
        task[m] = "running" =>
            /\ ~finished[m] /\ embed[m] = "building"
            /\ \E p \in Players : ~locked[m][p]

\* C31: while a match is active (started, view not finished, no participant
\* cancelled) get_game returns it for each of its two participants in its
\* channel: the registry never drops an active match, whatever the age of the
\* guild's registry entry.
RegistryKeepsActive ==
    \A m \in Matches : Active(m) => \A p \in Players : GetGame(m, p)

\* ------------------------------------------- a match ends, the next one starts
\* The prepared match 1 ends in one of its three ways (both lock and the
\* simulation settles it, participant 1 cancels it, the refresh task times it
\* out); meanwhile the users issue /game start for match 3 and participant 1
\* issues /game add in the same channel.
NextAgain ==
    \/ LockOnce(Slots, 1) \/ PressCancel(Slots, 1, {1})
    \/ Refresh(1) \/ ViewTimeout(1)
    \/ (\E h \in Slots, u \in Players, target \in Players : StartBegin(h, 3, u, target))
    \/ (\E h \in Slots, b \in {Forward(1), Spare(1)} : AddBegin(h, 1, 1, b, "fw"))
    \/ \E h \in Slots :
          \/ DoubleGame(h) \/ ResumeCancel(h) \/ StartSent(h)
          \/ AddDefer(h) \/ AddConfirm(h, TRUE) \/ AddCheck(h) \/ AddAppend(h)

SpecAgain == InitReady /\ [][NextAgain]_vars

\* menu.py 184-207: the refresh task of m has ended on its own: it was not
\* cancelled by a participant's cancel (which marks the participant) nor by
\* execute_game (which runs with both participants locked)
TimedOut(m) ==
    /\ task[m] = "done"
    /\ ~(locked[m][1] /\ locked[m][2])
    /\ \A p \in Players : ~cancelled[m][p]

Terminated(m) == embed[m] \in ({"complete"} \cup CancelReasons) \/ TimedOut(m)

\* C32: get_game never returns a match that is settled, cancelled or timed
\* out, a call of get_game that changes the channel's list leaves no such
\* match in it, and once a match has terminated each participant can start a
\* new match in its channel (no other match of the channel being registered).
TerminatedIsGone ==
    /\ [](\A m \in Matches : Terminated(m) => \A p \in Players : ~GetGame(m, p))
    /\ [][(games' # games /\ games' # {}) =>
            \E m \in games' \ games : \A m0 \in games' :
                (channel(m0) = channel(m) /\ m0 # m) => ~Terminated(m0)]_vars
    /\ [](\A m \in Matches : \A m2 \in Matches \ {m} :
            ( /\ Terminated(m) /\ Fresh(m2) /\ channel(m2) = channel(m)
              /\ \A m0 \in games \ {m} : channel(m0) # channel(m) )
            => \A u \in Players : ~StartRejected(m2, u, Other(u)))

\* C33: when a confirmed Reset of an unlocked participant completes, that
\* participant's roster and wager list are empty and none of the balls the
\* match held for the participant (rostered or only wagered) is trade-locked
\* any more; the other participant's roster and wagers and every ball's owner
\* are unchanged.
ResetReleasesAll ==
    [][\A h \in Slots :
         LET r == proc[h]
         IN ( /\ r.kind = "clear" /\ proc'[h] = Idle
              /\ (r.pc = "unlock" \/ bets'[r.m][r.p] # bets[r.m][r.p]) )
            => /\ team'[r.m][r.p] = EmptyTeam
               /\ bets'[r.m][r.p] = <<>>
               /\ \A b \in Balls : owner[b] = r.p => ~balllock'[b]
               /\ team'[r.m][Other(r.p)] = team[r.m][Other(r.p)]
               /\ bets'[r.m][Other(r.p)] = bets[r.m][Other(r.p)]
               /\ owner' = owner]_vars

\* ====================================================== cfcoins: the economy
\* Bounds of the economy model: the highest balance and pack count the
\* commands are let to reach.
MaxCoins == 250
MaxPacks == 2
MaxCreated == 2

\* BallInstance rows of user 1 the sell commands work on: pk 1 (rarity 25.0),
\* pk 2 (rarity 3.0) and pk 3 (rarity 0.5, favorited); rarities in hundredths
CfBalls == {1, 2, 3}
CfOwner(b) == 1
CfRarity(b) == IF b = 1 THEN 2500 ELSE IF b = 2 THEN 300 ELSE 50
CfFavorite(b) == b = 3
\* Ball rows with enabled=True, by rarity: none in the mythic and legendary ranges
CfCatalog == {2500, 300}

\* cfcoins/cog.py 268-286
calculate_sell_value(rarity) ==
    IF rarity >= 2000 THEN 7
    ELSE IF rarity >= 1000 THEN 15
    ELSE IF rarity >= 500 THEN 30
    ELSE IF rarity >= 200 THEN 60
    ELSE IF rarity >= 100 THEN 115
    ELSE IF rarity >= 50 THEN 225
    ELSE IF rarity >= 10 THEN 450
    ELSE IF rarity >= 1 THEN 800
    ELSE 1300

\* cfcoins/cog.py 288-312: the balls the weighted draw can return
get_random_ball_in_range(min_rarity, max_rarity) ==
    {r \in CfCatalog : r >= min_rarity /\ r <= max_rarity}

FreeCf(h) == cfproc[h].kind = "idle" /\ \A g \in Slots : g < h => cfproc[g].kind # "idle"
CfAt(h, kind, pc) == cfproc[h].kind = kind /\ cfproc[h].pc = pc
CfStart(h, kind, pc, u, pack, ball) ==
    cfproc' = [cfproc EXCEPT ![h] = [CfIdle EXCEPT !.kind = kind, !.pc = pc, !.u = u,
                                                   !.pack = pack, !.ball = ball]]
CfReturn(h) == cfproc' = [cfproc EXCEPT ![h] = CfIdle]

\* cfcoins/cog.py 340-354: daily; the account is old enough or not
Daily(u, coins, old) ==
    /\ cf_wallet[u] + coins <= MaxCoins
    /\ cf_wallet' = IF old THEN [cf_wallet EXCEPT ![u] = @ + coins] ELSE cf_wallet
    /\ UNCHANGED <<fgvars, cf_packs, instances, created, selected, stopped, cfproc>>

\* cfcoins/cog.py 388-402: weekly
Weekly(u, coins, old) ==
    /\ cf_wallet[u] + coins <= MaxCoins
    /\ cf_wallet' = IF old THEN [cf_wallet EXCEPT ![u] = @ + coins] ELSE cf_wallet
    /\ UNCHANGED <<fgvars, cf_packs, instances, created, selected, stopped, cfproc>>

\* cfcoins/cog.py 632-653: buy
BuyRejected(u, pack_type) ==
    \/ pack_type \notin PackNames
    \/ cf_wallet[u] < PACK_TYPES[pack_type].price

Buy(u, pack_type) ==
    /\ IF BuyRejected(u, pack_type) THEN TRUE ELSE cf_packs[u][pack_type] < MaxPacks
    /\ IF BuyRejected(u, pack_type)
       THEN UNCHANGED <<cf_wallet, cf_packs>>
       ELSE /\ cf_wallet' = [cf_wallet EXCEPT ![u] = @ - PACK_TYPES[pack_type].price]
            /\ cf_packs' = [cf_packs EXCEPT ![u][pack_type] = @ + 1]
    /\ UNCHANGED <<fgvars, instances, created, selected, stopped, cfproc>>

\* the check of giftcoins without the comparison of the balance with the amount
GiftCoinsRejectedUnfunded(u, user, amount) ==
    \/ user = u
    \/ IsBot(user)
    \/ amount <= 0

\* cfcoins/cog.py 809-842: giftcoins
GiftCoinsRejected(u, user, amount) ==
    \/ user = u
    \/ IsBot(user)
    \/ amount <= 0
    \/ cf_wallet[u] < amount

GiftCoins(u, user, amount) ==
    /\ IF GiftCoinsRejected(u, user, amount) THEN TRUE
       ELSE cf_wallet[user] + amount <= MaxCoins
    /\ cf_wallet' = IF GiftCoinsRejected(u, user, amount) THEN cf_wallet
                    ELSE [cf_wallet EXCEPT ![u] = @ - amount, ![user] = @ + amount]
    /\ UNCHANGED <<fgvars, cf_packs, instances, created, selected, stopped, cfproc>>

\* the checks of giftpacks without the test for a bot account
GiftPacksRejectedBotsToo(u, user, pack_type) ==
    \/ user = u
    \/ pack_type \notin PackNames
    \/ cf_packs[u][pack_type] < 1

\* cfcoins/cog.py 888-923: giftpacks
GiftPacksRejected(u, user, pack_type) ==
    \/ user = u
    \/ IsBot(user)
    \/ pack_type \notin PackNames
    \/ cf_packs[u][pack_type] < 1

GiftPacks(u, user, pack_type) ==
    /\ IF GiftPacksRejected(u, user, pack_type) THEN TRUE
       ELSE cf_packs[user][pack_type] < MaxPacks
    /\ cf_packs' = IF GiftPacksRejected(u, user, pack_type) THEN cf_packs
                   ELSE [cf_packs EXCEPT ![u][pack_type] = @ - 1, ![user][pack_type] = @ + 1]
    /\ UNCHANGED <<fgvars, cf_wallet, instances, created, selected, stopped, cfproc>>

\* cfcoins/cog.py 962-980: adminaddcoins
AdminAddCoins(u, user, amount) ==
    /\ cf_wallet[user] + amount <= MaxCoins
    /\ cf_wallet' = IF u \notin ADMIN_IDS \/ amount <= 0 THEN cf_wallet
                    ELSE [cf_wallet EXCEPT ![user] = @ + amount]
    /\ UNCHANGED <<fgvars, cf_packs, instances, created, selected, stopped, cfproc>>

Max(a, b) == IF a >= b THEN a ELSE b

\* cfcoins/cog.py 1013-1031: adminremovecoins
AdminRemoveCoins(u, user, amount) ==
    /\ cf_wallet' = IF u \notin ADMIN_IDS \/ amount <= 0 THEN cf_wallet
                    ELSE [cf_wallet EXCEPT ![user] = Max(0, @ - amount)]
    /\ UNCHANGED <<fgvars, cf_packs, instances, created, selected, stopped, cfproc>>

\* cfcoins/cog.py 1076-1101: adminaddpacks
AdminAddPacks(u, user, pack_type, amount) ==
    /\ IF u \notin ADMIN_IDS \/ pack_type \notin PackNames \/ amount <= 0
       THEN UNCHANGED cf_packs
       ELSE /\ cf_packs[user][pack_type] + amount <= MaxPacks
            /\ cf_packs' = [cf_packs EXCEPT ![user][pack_type] = @ + amount]
    /\ UNCHANGED <<fgvars, cf_wallet, instances, created, selected, stopped, cfproc>>

\* cfcoins/cog.py 1148-1173: adminremovepacks
AdminRemovePacks(u, user, pack_type, amount) ==
    /\ IF u \notin ADMIN_IDS \/ pack_type \notin PackNames \/ amount <= 0
       THEN UNCHANGED cf_packs
       ELSE cf_packs' = [cf_packs EXCEPT ![user][pack_type] = Max(0, @ - amount)]
    /\ UNCHANGED <<fgvars, cf_wallet, instances, created, selected, stopped, cfproc>>

\* ----------------------------------------------------------------- sell
\* cfcoins/cog.py 438-452: the command with a ball of the table, up to the
\* await of Player.get_or_create
SellBegin(h, u, b) ==
    /\ FreeCf(h)
    /\ b \in instances
    /\ CfStart(h, "sell", "player", u, "", b)
    /\ UNCHANGED <<fgvars, cf_wallet, cf_packs, instances, created, selected, stopped>>

\* cfcoins/cog.py 453: the query for the row with this pk and this player
SellFetch(h) ==
    /\ CfAt(h, "sell", "player")
    /\ cfproc' = [cfproc EXCEPT ![h].pc = "fetch",
                     ![h].found = (cfproc[h].ball \in instances
                                   /\ CfOwner(cfproc[h].ball) = cfproc[h].u)]
    /\ UNCHANGED <<fgvars, cf_wallet, cf_packs, instances, created, selected, stopped>>

\* cfcoins/cog.py 455-467
SellRejected(h) == ~cfproc[h].found \/ CfFavorite(cfproc[h].ball)

\* cfcoins/cog.py 455-476: the checks, then the await of ball_instance.delete(),
\* which deletes the row if it is still there and raises or not
SellDelete(h, ok) ==
    /\ CfAt(h, "sell", "fetch")
    /\ IF SellRejected(h)
       THEN CfReturn(h) /\ UNCHANGED instances
       ELSE /\ instances' = IF ok THEN instances \ {cfproc[h].ball} ELSE instances
            /\ cfproc' = [cfproc EXCEPT ![h].pc = "delete", ![h].ok = ok]
    /\ UNCHANGED <<fgvars, cf_wallet, cf_packs, created, selected, stopped>>

\* cfcoins/cog.py 477-487: the error answer, or the coins credited
SellCredit(h) ==
    /\ CfAt(h, "sell", "delete")
    /\ cf_wallet' = IF cfproc[h].ok
                    THEN [cf_wallet EXCEPT ![cfproc[h].u] =
                              @ + calculate_sell_value(CfRarity(cfproc[h].ball))]
                    ELSE cf_wallet
    /\ CfReturn(h)
    /\ UNCHANGED <<fgvars, cf_packs, instances, created, selected, stopped>>

\* ------------------------------------------------------- BulkSellView
\* cfcoins/cog.py 101-110: the balls of user 1's menu: those not favorited
all_balls == {b \in CfBalls : CfOwner(b) = 1 /\ ~CfFavorite(b)}

\* the values still to append, in the order given
RECURSIVE AppendNew(_, _)
AppendNew(s, values) ==
    IF values = <<>> THEN s
    ELSE AppendNew(IF InSeq(Head(values), s) THEN s ELSE Append(s, Head(values)),
                   Tail(values))

\* cfcoins/cog.py 231-244: Select Page appends the balls chosen in the dropdown
\* that are not selected yet
select_page_button(values) ==
    /\ ~stopped
    /\ \A i \in 1..Len(values) : values[i] \in all_balls
    /\ selected' = AppendNew(selected, values)
    /\ UNCHANGED <<fgvars, cf_wallet, cf_packs, instances, created, stopped, cfproc>>

\* cfcoins/cog.py 243-244: cached_values, set when the ball is selected
cached_values(b) == calculate_sell_value(CfRarity(b))

\* cfcoins/cog.py 170-178: Confirm, up to the await of defer()
ConfirmBegin(h) ==
    /\ FreeCf(h)
    /\ ~stopped
    /\ IF selected = <<>>
       THEN UNCHANGED cfproc
       ELSE CfStart(h, "confirm", "loop", 1, "", 0)
    /\ UNCHANGED <<fgvars, cf_wallet, cf_packs, instances, created, selected, stopped>>

\* cfcoins/cog.py 226-228: Clear binds selected_balls to a new empty list; a
\* Confirm whose loop has begun keeps iterating the list it began with, which
\* no later Select Page appends to
clear_button ==
    /\ ~stopped
    /\ selected' = <<>>
    /\ cfproc' = [h \in Slots |->
                     IF cfproc[h].kind = "confirm" /\ cfproc[h].idx >= 1 /\ ~cfproc[h].own
                     THEN [cfproc[h] EXCEPT !.list = selected, !.own = TRUE]
                     ELSE cfproc[h]]
    /\ UNCHANGED <<fgvars, cf_wallet, cf_packs, instances, created, stopped>>

\* cfcoins/cog.py 164-167: Quit: the awaits of defer() and of
\* delete_original_response(), then self.stop(); nothing is sold
quit_button(h) ==
    /\ \/ FreeCf(h) /\ ~stopped /\ CfStart(h, "quit", "defer", 1, "", 0)
             /\ UNCHANGED stopped
       \/ CfAt(h, "quit", "defer") /\ cfproc' = [cfproc EXCEPT ![h].pc = "delete"]
             /\ UNCHANGED stopped
       \/ CfAt(h, "quit", "delete") /\ CfReturn(h) /\ stopped' = TRUE
    /\ UNCHANGED <<fgvars, cf_wallet, cf_packs, instances, created, selected>>

\* cfcoins/cog.py 102: the view's timeout of 300 s ends the menu
on_timeout ==
    /\ ~stopped
    /\ stopped' = TRUE
    /\ UNCHANGED <<fgvars, cf_wallet, cf_packs, instances, created, selected, cfproc>>

\* cfcoins/cog.py 183-190: the loop over selected_balls goes on to its next ball
\* and awaits fetch_related, or ends: the total is credited and the answer sent
ConfirmNext(h) ==
    /\ CfAt(h, "confirm", "loop")
    /\ LET balls == IF cfproc[h].own THEN cfproc[h].list ELSE selected
       IN IF cfproc[h].idx < Len(balls)
          THEN /\ cfproc' = [cfproc EXCEPT ![h].pc = "fetch", ![h].idx = @ + 1,
                                           ![h].ball = balls[cfproc[h].idx + 1]]
               /\ UNCHANGED cf_wallet
          ELSE /\ cf_wallet' = [cf_wallet EXCEPT ![cfproc[h].u] = @ + cfproc[h].total]
               /\ cfproc' = [cfproc EXCEPT ![h].pc = "edit"]
    /\ UNCHANGED <<fgvars, cf_packs, instances, created, selected, stopped>>

\* cfcoins/cog.py 185-188: the ball's value added to the total, the await of
\* ball.delete()
ConfirmDelete(h) ==
    /\ CfAt(h, "confirm", "fetch")
    /\ instances' = instances \ {cfproc[h].ball}
    /\ cfproc' = [cfproc EXCEPT ![h].pc = "loop",
                                ![h].total = @ + cached_values(cfproc[h].ball)]
    /\ UNCHANGED <<fgvars, cf_wallet, cf_packs, created, selected, stopped>>

\* cfcoins/cog.py 203-223: after the answer and the log, self.stop()
ConfirmDone(h) ==
    /\ CfAt(h, "confirm", "edit")
    /\ stopped' = TRUE
    /\ CfReturn(h)
    /\ UNCHANGED <<fgvars, cf_wallet, cf_packs, instances, created, selected>>

\* ----------------------------------------------------------------- open
\* cfcoins/cog.py 714-726
OpenRejected(u, pack_type) ==
    \/ pack_type \notin PackNames
    \/ cf_packs[u][pack_type] < 1

\* cfcoins/cog.py 711-730: the checks, up to the await of Player.get_or_create
OpenBegin(h, u, pack_type) ==
    /\ FreeCf(h)
    /\ created[u] < MaxCreated
    /\ IF OpenRejected(u, pack_type)
       THEN UNCHANGED cfproc
       ELSE CfStart(h, "open", "player", u, pack_type, 0)
    /\ UNCHANGED <<fgvars, cf_wallet, cf_packs, instances, created, selected, stopped>>

\* cfcoins/cog.py 731-733: the await of get_random_ball_in_range
OpenPick(h) ==
    /\ CfAt(h, "open", "player")
    /\ cfproc' = [cfproc EXCEPT ![h].pc = "pick"]
    /\ UNCHANGED <<fgvars, cf_wallet, cf_packs, instances, created, selected, stopped>>

\* cfcoins/cog.py 735-749: no ball in the range, or the pack is taken and the
\* await of BallInstance.create
OpenTake(h) ==
    /\ CfAt(h, "open", "pick")
    /\ LET r == cfproc[h]
           info == PACK_TYPES[r.pack]
       IN IF get_random_ball_in_range(info.min_rarity, info.max_rarity) = {}
          THEN CfReturn(h) /\ UNCHANGED <<cf_packs, created>>
          ELSE /\ cf_packs' = [cf_packs EXCEPT ![r.u][r.pack] = @ - 1]
               /\ created' = [created EXCEPT ![r.u] = @ + 1]
               /\ cfproc' = [cfproc EXCEPT ![h].pc = "create"]
    /\ UNCHANGED <<fgvars, cf_wallet, instances, selected, stopped>>

\* cfcoins/cog.py 751-806: the walkout messages and the log
OpenDone(h) ==
    /\ CfAt(h, "open", "create")
    /\ CfReturn(h)
    /\ UNCHANGED <<fgvars, cf_wallet, cf_packs, instances, created, selected, stopped>>

\* ------------------------------------------------------------ opening packs
\* No match; the members hold a few packs (user 1 up to MaxPacks normal packs
\* and a mythic one, user 2 an epic one) and issue /cfcoins open, the handlers
\* interleave; the admin (user 1) adds and removes normal packs.
OpenInputs == PackNames \cup {"bogus"}
AdminPackTypes == {"normal", "bogus"}
AdminPackAmounts == {0, 1, 5}

InitOpen ==
    /\ NoMatch
    /\ cf_wallet = [u \in CfUsers |-> 0]
    /\ \E n \in 0..MaxPacks, k, e \in 0..1 :
          cf_packs = [u \in CfUsers |-> [t \in PackNames |->
                         IF u = 1 /\ t = "normal" THEN n
                         ELSE IF u = 1 /\ t = "mythic" THEN k
                         ELSE IF u = 2 /\ t = "epic" THEN e ELSE 0]]
    /\ instances = {}
    /\ created = [u \in CfUsers |-> 0]
    /\ selected = <<>>
    /\ stopped = FALSE
    /\ cfproc = [h \in Slots |-> CfIdle]

NextOpen ==
    \/ (\E h \in Slots, u \in Members, pack_type \in OpenInputs : OpenBegin(h, u, pack_type))
    \/ (\E u, user \in Members, pack_type \in AdminPackTypes, amount \in AdminPackAmounts :
            AdminAddPacks(u, user, pack_type, amount))
    \/ (\E u, user \in Members, pack_type \in AdminPackTypes, amount \in AdminPackAmounts :
            AdminRemovePacks(u, user, pack_type, amount))
    \/ \E h \in Slots : OpenPick(h) \/ OpenTake(h) \/ OpenDone(h)

SpecOpen == InitOpen /\ [][NextOpen]_vars

PacksOf(u) == cf_packs[u]["normal"] + cf_packs[u]["epic"]
                + cf_packs[u]["mythic"] + cf_packs[u]["legendary"]

\* C34: no pack count is ever negative, also when two opens of the same user
\* and pack type interleave between the check and the decrement; every step of
\* an open that takes a pack takes exactly one and creates exactly one ball,
\* and an open that finds no ball in the rarity range takes no pack.
PacksOpenedOnce ==
    /\ [](\A u \in CfUsers, t \in PackNames : cf_packs[u][t] >= 0)
    /\ [][\A u \in CfUsers :
            /\ cfproc' # cfproc => PacksOf(u)' + created'[u] = PacksOf(u) + created[u]
            /\ created'[u] # created[u] =>
                  /\ created'[u] = created[u] + 1
                  /\ PacksOf(u)' = PacksOf(u) - 1]_vars
    /\ [][\A h \in Slots :
            (CfAt(h, "open", "pick") /\ cfproc'[h] # cfproc[h]
               /\ get_random_ball_in_range(PACK_TYPES[cfproc[h].pack].min_rarity,
                                           PACK_TYPES[cfproc[h].pack].max_rarity) = {})
            => cf_packs' = cf_packs /\ created' = created]_vars

\* ------------------------------------------------------------- the wallets
\* No match; user 1 owns the three balls and has the bulk-sell menu open.  The
\* members claim, sell, buy and gift, the admin adds and removes coins, one
\* handler at a time.
DailyCoins == {50}
WeeklyCoins == {150}
GiftAmounts == {-5, 0, 100, 1000}
AdminAmounts == {0, 100, 1000}
SelectInputs == {<<1>>, <<2, 1>>}

InitWallet ==
    /\ NoMatch
    /\ cf_wallet = [u \in CfUsers |-> 0]
    /\ cf_packs = [u \in CfUsers |-> [t \in PackNames |-> 0]]
    /\ instances = CfBalls
    /\ created = [u \in CfUsers |-> 0]
    /\ selected = <<>>
    /\ stopped = FALSE
    /\ cfproc = [h \in Slots |-> CfIdle]

Sell(S) ==
    \/ (\E h \in S, u \in Members, b \in CfBalls : SellBegin(h, u, b))
    \/ \E h \in S : SellFetch(h) \/ (\E ok \in BOOLEAN : SellDelete(h, ok)) \/ SellCredit(h)

BulkSell(S, V) ==
    \/ (\E values \in V : select_page_button(values))
    \/ \E h \in S : ConfirmBegin(h) \/ ConfirmNext(h) \/ ConfirmDelete(h) \/ ConfirmDone(h)

\* the buttons of the menu that sell nothing, and its timeout
MenuOther(S) == clear_button \/ on_timeout \/ \E h \in S : quit_button(h)

NextWallet ==
    \/ (\E u \in Members, coins \in DailyCoins, old \in BOOLEAN : Daily(u, coins, old))
    \/ (\E u \in Members, coins \in WeeklyCoins, old \in BOOLEAN : Weekly(u, coins, old))
    \/ (\E u \in Members, pack_type \in OpenInputs : Buy(u, pack_type))
    \/ (\E u \in Members, user \in CfUsers, amount \in GiftAmounts : GiftCoins(u, user, amount))
    \/ (\E u, user \in Members, amount \in AdminAmounts : AdminAddCoins(u, user, amount))
    \/ (\E u, user \in Members, amount \in AdminAmounts : AdminRemoveCoins(u, user, amount))
    \/ Sell({1}) \/ BulkSell({1}, {<<2, 1>>})

SpecWallet == InitWallet /\ [][NextWallet]_vars

\* C35: no balance is ever negative, whatever the sequence of daily, weekly,
\* sell, bulk sell, buy, giftcoins, adminaddcoins and adminremovecoins: a step
\* never takes more coins from a balance than the balance holds, a balance
\* below the price (of the pack bought) or the amount (gifted) loses nothing,
\* and a removal by the admin of more than the balance leaves 0.
WalletNeverNegative ==
    /\ [](\A u \in CfUsers : cf_wallet[u] >= 0)
    /\ [][\A u \in CfUsers :
            cf_wallet'[u] < cf_wallet[u] =>
                \/ \E t \in PackNames :
                      /\ cf_wallet[u] >= PACK_TYPES[t].price
                      /\ cf_wallet'[u] = cf_wallet[u] - PACK_TYPES[t].price
                      /\ cf_packs'[u][t] = cf_packs[u][t] + 1
                \/ \E user \in CfUsers \ {u}, amount \in GiftAmounts :
                      /\ amount > 0 /\ cf_wallet[u] >= amount
                      /\ cf_wallet'[u] = cf_wallet[u] - amount
                      /\ cf_wallet'[user] = cf_wallet[user] + amount
                \/ \E amount \in AdminAmounts :
                      /\ amount > 0 /\ cf_packs' = cf_packs
                      /\ cf_wallet'[u] = IF cf_wallet[u] >= amount
                                         THEN cf_wallet[u] - amount ELSE 0]_vars

\* user 1 has bought a pack and sold ball 1, and is left with a balance below
\* every price and below the amount of a gift; user 2 holds 100 coins
WalletNeverNegativeWitness ==
    /\ cf_packs[1]["normal"] = 1
    /\ cf_wallet[1] = calculate_sell_value(CfRarity(1))
    /\ cf_wallet[2] = 100
    /\ 1 \notin instances
    /\ \A h \in Slots : cfproc[h] = CfIdle

\* ----------------------------------------------------------------- selling
\* User 1 sells balls with /cfcoins sell and with the bulk-sell menu (every
\* button of it), the handlers interleave; no other command changes a balance.
NextSell == Sell(Slots) \/ BulkSell(Slots, SelectInputs) \/ MenuOther(Slots)

SpecSell == InitWallet /\ [][NextSell]_vars

RECURSIVE SoldValue(_)
SoldValue(S) ==
    IF S = {} THEN 0
    ELSE LET b == CHOOSE x \in S : TRUE
         IN calculate_sell_value(CfRarity(b)) + SoldValue(S \ {b})

\* C36: each ball is converted into coins at most once: with sell and the
\* bulk-sell Confirm as the only sources of coins, a user's balance never
\* exceeds the total value of the user's balls that have been deleted.
SoldOnce ==
    \A u \in CfUsers :
        cf_wallet[u] <= SoldValue({b \in CfBalls \ instances : CfOwner(b) = u})

\* ------------------------------------------------------------------- gifts
\* User 1 holds MaxCoins coins and packs of every type; the members gift coins
\* and packs to each other, to themselves and to the bot account.
GiftInputs == {-5, 0, 50, 100, 1000}

InitGift ==
    /\ NoMatch
    /\ cf_wallet = [u \in CfUsers |-> IF u = 1 THEN MaxCoins ELSE 0]
    /\ cf_packs = [u \in CfUsers |-> [t \in PackNames |->
                      IF u # 1 THEN 0 ELSE IF t \in {"normal", "epic"} THEN MaxPacks ELSE 1]]
    /\ instances = {}
    /\ created = [u \in CfUsers |-> 0]
    /\ selected = <<>>
    /\ stopped = FALSE
    /\ cfproc = [h \in Slots |-> CfIdle]

NextGift ==
    \/ (\E u \in Members, user \in CfUsers, amount \in GiftInputs : GiftCoins(u, user, amount))
    \/ (\E u \in Members, user \in CfUsers, pack_type \in OpenInputs : GiftPacks(u, user, pack_type))

SpecGift == InitGift /\ [][NextGift]_vars

\* C37: a gift that changes anything moves a positive amount the sender holds
\* (or one pack of a type the sender holds) from the sender to another user
\* who is not a bot, taking from the sender exactly what the receiver gets and
\* changing nothing else; a gift to oneself, to a bot, of a non-positive
\* amount or beyond what the sender holds therefore changes nothing.
GiftsConserve ==
    [][(cf_wallet' # cf_wallet \/ cf_packs' # cf_packs) =>
         \E u \in Members, user \in CfUsers :
            /\ user # u /\ ~IsBot(user)
            /\ \/ /\ cf_packs' = cf_packs
                  /\ \E amount \in 1..cf_wallet[u] :
                        cf_wallet' = [cf_wallet EXCEPT ![u] = cf_wallet[u] - amount,
                                                       ![user] = cf_wallet[user] + amount]
               \/ /\ cf_wallet' = cf_wallet
                  /\ \E t \in PackNames :
                        /\ cf_packs[u][t] >= 1
                        /\ cf_packs' = [cf_packs EXCEPT ![u][t] = cf_packs[u][t] - 1,
                                                        ![user][t] = cf_packs[user][t] + 1]]_vars

\* user 1 has given away all but 50 coins and both normal packs; the bot
\* account holds nothing
GiftsConserveWitness ==
    /\ cf_wallet = [u \in CfUsers |-> IF u = 1 THEN 50 ELSE IF u = 2 THEN MaxCoins - 50 ELSE 0]
    /\ cf_packs[1]["normal"] = 0 /\ cf_packs[2]["normal"] = MaxPacks
    /\ \A t \in PackNames : cf_packs[3][t] = 0

=============================================================================
